---------------------------- MODULE Spec2Model ----------------------------
(***************************************************************************)
(* Email scheduling engine: the main pass (EmailScheduler.run_scheduler)   *)
(* and the follow-up pass (FollowupScheduler.run_followup_scheduler) over  *)
(* the shared store.                                                       *)
(*                                                                         *)
(* Dates.  A Python date object is its proleptic Gregorian ordinal         *)
(* (date.toordinal()).  A date string of the store ('%Y-%m-%d' text) is a  *)
(* triple <<y, m, d>>; NULL and '' are <<0, 0, 0>>; a triple that names no *)
(* calendar day (<<2023, 2, 30>>) is a malformed string.  Comparing ISO    *)
(* strings, as SQL does, is comparing the triples lexicographically.       *)
(***************************************************************************)
EXTENDS Integers, Sequences, FiniteSets, TLC

VARIABLES
    today,              \* date.today(): ordinal of the wall-clock day
    contacts,           \* table contacts, in rowid order
    email_schedules,    \* table email_schedules: a set of rows
    next_id,            \* AUTOINCREMENT counter of email_schedules.id
    pc,                 \* position of the running pass ("idle" between passes)
    run_id,             \* scheduler_run_id of the running (or last) pass
    batch,              \* contacts fetched by get_contacts_batch in this pass
    schedules,          \* the pass's in-memory list of EmailSchedule objects
    run_day,            \* history: run identifier -> today of that pass
    prev_run,           \* history: inputs and output of the last completed main pass
    ticks,              \* number of days the clock has advanced
    scheduler_checkpoints, \* table scheduler_checkpoints
    run_input,          \* history: the store as the running main pass found it after its wipe
    calc_in,            \* inputs of the date calculus under SpecCalc
    calc_out,           \* results of the date calculus under SpecCalc
    raised,             \* what the pass that ran last raised to its caller, or NULL
    uncontactable       \* number of further rows of table contacts, all without an email

vars == <<today, contacts, email_schedules, next_id, pc, run_id, batch,
          schedules, run_day, prev_run, ticks, scheduler_checkpoints, run_input,
          calc_in, calc_out, raised, uncontactable>>

-----------------------------------------------------------------------------
(* Calendar arithmetic of datetime.date                                    *)

NoDate == 0
NullStr == <<0, 0, 0>>

IsLeap(y) == (y % 4 = 0) /\ ((y % 100 # 0) \/ (y % 400 = 0))

DaysInMonth(y, m) ==
    IF m = 2 THEN (IF IsLeap(y) THEN 29 ELSE 28)
    ELSE IF m \in {4, 6, 9, 11} THEN 30 ELSE 31

DaysBeforeYear(y) ==
    LET p == y - 1 IN p * 365 + (p \div 4) - (p \div 100) + (p \div 400)

DaysBeforeMonth(y, m) ==
    <<0, 31, 59, 90, 120, 151, 181, 212, 243, 273, 304, 334>>[m]
      + (IF m > 2 /\ IsLeap(y) THEN 1 ELSE 0)

\* date(y, m, d) raises ValueError unless the triple names a calendar day
ValidYmd(y, m, d) ==
    /\ y >= 1 /\ y <= 9999
    /\ m >= 1 /\ m <= 12
    /\ d >= 1 /\ d <= DaysInMonth(y, m)

\* date(y, m, d).toordinal()
Ymd2Ord(y, m, d) == DaysBeforeYear(y) + DaysBeforeMonth(y, m) + d

YearOf(n) ==
    LET n0   == n - 1
        n400 == n0 \div 146097
        r400 == n0 % 146097
        n100 == r400 \div 36524
        r100 == r400 % 36524
        n4   == r100 \div 1461
        r4   == r100 % 1461
        n1   == r4 \div 365
        y    == n400 * 400 + n100 * 100 + n4 * 4 + n1 + 1
    IN IF n1 = 4 \/ n100 = 4 THEN y - 1 ELSE y

MonthOf(n) ==
    LET y   == YearOf(n)
        doy == n - DaysBeforeYear(y)
    IN CHOOSE m \in 1..12 :
         /\ DaysBeforeMonth(y, m) < doy
         /\ doy <= DaysBeforeMonth(y, m) + DaysInMonth(y, m)

DayOf(n) == LET y == YearOf(n) IN n - DaysBeforeYear(y) - DaysBeforeMonth(y, MonthOf(n))

\* date.isoformat(): the stored text of a date
isoformat(n) == <<YearOf(n), MonthOf(n), DayOf(n)>>

\* datetime.strptime(s, '%Y-%m-%d').date(): NoDate stands for the ValueError
strptime(s) == IF ValidYmd(s[1], s[2], s[3]) THEN Ymd2Ord(s[1], s[2], s[3]) ELSE NoDate

\* comparison of two ISO date strings (Python str / SQL TEXT comparison)
StrLt(a, b) ==
    \/ a[1] < b[1]
    \/ a[1] = b[1] /\ a[2] < b[2]
    \/ a[1] = b[1] /\ a[2] = b[2] /\ a[3] < b[3]

StrLe(a, b) == a = b \/ StrLt(a, b)

-----------------------------------------------------------------------------
(* Configuration (EmailScheduler.__init__)                                 *)

max_emails_per_period == 5
period_days == 30
birthday_email_days_before == 14
effective_date_days_before == 30
pre_window_exclusion_days == 60
aep_month == 9
aep_day == 15
ed_daily_soft_limit == 15
ed_smoothing_window_days == 5

StateRule(t, b, a, ms) ==
    [rule_type |-> t, window_before |-> b, window_after |-> a, use_month_start |-> ms]

state_rules ==
    [s \in {"CA", "ID", "KY", "MD", "NV", "OK", "OR", "VA", "MO", "CT", "MA", "NY", "WA"} |->
        CASE s = "CA" -> StateRule("birthday_window", 30, 60, FALSE)
          [] s = "ID" -> StateRule("birthday_window", 0, 63, FALSE)
          [] s = "KY" -> StateRule("birthday_window", 0, 60, FALSE)
          [] s = "MD" -> StateRule("birthday_window", 0, 30, FALSE)
          [] s = "NV" -> StateRule("birthday_window", 0, 60, TRUE)
          [] s = "OK" -> StateRule("birthday_window", 0, 60, FALSE)
          [] s = "OR" -> StateRule("birthday_window", 0, 31, FALSE)
          [] s = "VA" -> StateRule("birthday_window", 0, 30, FALSE)
          [] s = "MO" -> StateRule("effective_date_window", 30, 33, FALSE)
          [] OTHER    -> StateRule("year_round", 0, 0, FALSE)]

-----------------------------------------------------------------------------
(* Date calculus                                                           *)

\* date(year, month, day) with the Feb 29 fallback of the two try/except blocks
\* (a parsed event date has no other day that a year may lack)
AnniversaryYmd(year, m, d) ==
    IF ValidYmd(year, m, d) THEN Ymd2Ord(year, m, d) ELSE Ymd2Ord(year, 2, 28)

AnniversaryIn(year, event) == AnniversaryYmd(year, MonthOf(event), DayOf(event))

\* variant: an anniversary that falls on the reference date itself is kept
PickAnniversaryOnOrAfter(this_year_anniversary, event_date, reference_date) ==
    IF this_year_anniversary < reference_date
    THEN AnniversaryIn(YearOf(reference_date) + 1, event_date)
    ELSE this_year_anniversary

\* "if this_year_anniversary <= reference_date: ... else: ..."
PickAnniversary(this_year_anniversary, event_date, reference_date) ==
    IF this_year_anniversary <= reference_date
    THEN AnniversaryIn(YearOf(reference_date) + 1, event_date)
    ELSE this_year_anniversary

\* the function's body once strptime has run (NoDate: it raised ValueError)
NextAnniversaryOf(event_date, reference_date) ==
    IF event_date = NoDate THEN NoDate
    ELSE PickAnniversary(AnniversaryIn(YearOf(reference_date), event_date),
                         event_date, reference_date)

get_next_anniversary_date(date_str, reference_date) ==
    IF date_str = NullStr THEN NoDate
    ELSE NextAnniversaryOf(strptime(date_str), reference_date)

\* variant: the window without its pre-window extension
WindowAtNoExtension(state_rule, window_center) ==
    <<window_center - state_rule.window_before, window_center + state_rule.window_after>>

\* "window_start = window_center - timedelta(...)", "window_end = window_center + ..."
WindowAt(state_rule, window_center) ==
    <<window_center - (state_rule.window_before + pre_window_exclusion_days),
      window_center + state_rule.window_after>>

\* the branch of a window rule, from the date it needs and that date's anniversary
WindowAround(state_rule, date_str, anniversary_date) ==
    IF date_str = NullStr \/ anniversary_date = NoDate THEN <<NoDate, NoDate>>
    ELSE IF state_rule.rule_type = "birthday_window" /\ state_rule.use_month_start
    THEN WindowAt(state_rule, Ymd2Ord(YearOf(anniversary_date), MonthOf(anniversary_date), 1))
    ELSE WindowAt(state_rule, anniversary_date)

WindowFor(state_rule, contact, reference_date) ==
    IF state_rule.rule_type = "year_round"
    THEN <<Ymd2Ord(YearOf(reference_date), 1, 1), Ymd2Ord(YearOf(reference_date), 12, 31)>>
    ELSE IF state_rule.rule_type = "birthday_window"
    THEN WindowAround(state_rule, contact.birth_date,
                      get_next_anniversary_date(contact.birth_date, reference_date))
    ELSE IF state_rule.rule_type = "effective_date_window"
    THEN WindowAround(state_rule, contact.effective_date,
                      get_next_anniversary_date(contact.effective_date, reference_date))
    ELSE <<NoDate, NoDate>>

calculate_exclusion_window(contact, reference_date) ==
    IF contact.state \notin DOMAIN state_rules THEN <<NoDate, NoDate>>
    ELSE WindowFor(state_rules[contact.state], contact, reference_date)

\* the membership test on a computed window
InWindow(send_date, window_start, window_end) ==
    IF window_start = NoDate \/ window_end = NoDate THEN FALSE
    ELSE IF YearOf(window_start) # YearOf(window_end)
    THEN (send_date >= window_start) \/ (send_date <= window_end)
    ELSE window_start <= send_date /\ send_date <= window_end

WindowTest(send_date, w) == InWindow(send_date, w[1], w[2])

is_date_in_exclusion_window(send_date, contact) ==
    WindowTest(send_date, calculate_exclusion_window(contact, today))

-----------------------------------------------------------------------------
(* Bounds of the model                                                     *)

NumContacts == 3    \* rows of table contacts
batch_size == 2     \* config['batch_size'], scaled down to the model's population
MaxRuns == 2        \* passes (main or follow-up) started in one behaviour
MaxTicks == 1       \* days the clock advances in one behaviour

-----------------------------------------------------------------------------
(* Stored values                                                           *)

NULL == "NULL"
send_time == "08:30:00"

\* An email_type is text with a prefix that LIKE patterns and f-strings act on:
\* <<"campaign_", name>> is f'campaign_{name}', <<"followup_", tier>> a follow-up tier.
Plain(t) == <<"", t>>
CampaignEmailType(name) == <<"campaign_", name>>
FollowupEmailType(tier) == <<"followup_", tier>>
IsFollowupType(t) == t[1] = "followup_"
IsCampaignType(t) == t[1] = "campaign_"

\* the catchup_note column: NULL for rows of the main pass
NoMeta == [initial_email_id |-> 0, initial_email_type |-> Plain(NULL),
           clicked_links |-> FALSE, answered_health_questions |-> FALSE,
           has_medical_conditions |-> FALSE, campaign_name |-> NULL]

Contact(id, email, state, zip, birth, eff) ==
    [id |-> id, email |-> email, state |-> state, zip_code |-> zip,
     birth_date |-> birth, effective_date |-> eff]

\* Contact rows the initial store draws from
Profiles ==
    << Contact(0, "a@x", "CA", "90001", <<1960, 7, 1>>, NullStr),
       Contact(0, "a@x", "CA", "90001", <<1960, 1, 15>>, <<2020, 5, 31>>),
       Contact(0, "a@x", "NY", "10001", <<1960, 7, 1>>, <<2020, 6, 2>>),
       Contact(0, "a@x", "TX", "73301", <<1970, 3, 10>>, <<2020, 5, 31>>),
       Contact(0, "a@x", "MO", "63101", NullStr, <<2020, 7, 15>>),
       Contact(0, "a@x", "NV", "89101", <<1960, 7, 20>>, NullStr),
       Contact(0, "a@x", "TX", "73301", <<2020, 2, 29>>, <<2021, 2, 30>>),
       Contact(0, "", "TX", "73301", <<1970, 3, 10>>, <<2020, 5, 31>>),
       Contact(0, "a@x", "CA", "90001", <<1960, 7, 16>>, <<2020, 10, 16>>) >>

\* profiles contact i may take: any eligible one for contact 1, two for contact 2,
\* an eligible or an ineligible (empty email) one for the others
ProfilesFor(i) ==
    IF i = 1 THEN (1..7) \cup {9}
    ELSE IF i = 2 THEN {3, 4}
    ELSE IF i = 3 THEN {4, 8}
    ELSE {4}

TodayChoices ==
    {Ymd2Ord(2024, 1, 1), Ymd2Ord(2024, 5, 1), Ymd2Ord(2024, 9, 14), Ymd2Ord(2024, 12, 31)}

\* number of messages already sent to contact 1 in the days before the first pass
HistChoices == {0, 4, 6}

\* rows of table contacts beyond the modelled ones: none, or enough of them for an
\* effective-date soft limit of one message a day
UncontactableChoices == {0, 55}

CampaignTypeRow(n, r, f, d, t, p, a) ==
    [name |-> n, respect_exclusion_windows |-> r, enable_followups |-> f,
     days_before_event |-> d, target_all_contacts |-> t, priority |-> p, active |-> a]

\* table campaign_types (create_test_campaign_data, plus an inactive type)
campaign_types ==
    { CampaignTypeRow("rate_increase", TRUE, TRUE, 14, FALSE, 1, TRUE),
      CampaignTypeRow("seasonal_promo", TRUE, TRUE, 7, FALSE, 5, TRUE),
      CampaignTypeRow("initial_blast", FALSE, FALSE, 0, TRUE, 10, TRUE),
      CampaignTypeRow("retired", TRUE, TRUE, 0, FALSE, 5, FALSE) }

\* metadata: the followup_templates entries of the instance's JSON text
CampaignInstanceRow(i, t, n, e, s, a, b, md) ==
    [id |-> i, campaign_type |-> t, instance_name |-> n, email_template |-> e,
     sms_template |-> s, active_start_date |-> a, active_end_date |-> b, metadata |-> md]

\* table campaign_instances, in rowid order
campaign_instances ==
    << CampaignInstanceRow(1, "rate_increase", "rate_increase_q1_2024",
                           "rate_increase_template_v1", "rate_increase_sms_v1", NullStr, NullStr,
                           {[tier |-> "4_hq_with_yes", email |-> "rate_hq_yes_template",
                             sms |-> "rate_hq_yes_sms"]}),
       CampaignInstanceRow(2, "seasonal_promo", "spring_enrollment_2024",
                           "spring_promo_template", "spring_promo_sms", <<2024, 4, 1>>, <<2024, 10, 31>>, {}),
       CampaignInstanceRow(3, "initial_blast", "blast_2024", "blast_template", NULL, NullStr, NullStr, {}),
       CampaignInstanceRow(4, "retired", "retired_2024", "retired_template", NULL, NullStr, NullStr, {}),
       CampaignInstanceRow(5, "ghost", "ghost_2024", "ghost_template", NULL, NullStr, NullStr, {}) >>

Membership(c, i, t) ==
    [contact_id |-> c, campaign_instance_id |-> i, trigger_date |-> t, status |-> "pending"]

\* table contact_campaigns, in rowid order
contact_campaigns ==
    << Membership(1, 1, <<2024, 6, 20>>),
       Membership(1, 3, <<2024, 5, 1>>),
       Membership(1, 2, <<2024, 9, 22>>),
       Membership(2, 3, <<2024, 5, 20>>),
       Membership(2, 3, <<2024, 6, 1>>),
       Membership(2, 1, <<2024, 1, 5>>),
       Membership(2, 2, NullStr),
       Membership(1, 4, <<2024, 6, 1>>),
       Membership(2, 5, <<2024, 6, 1>>) >>

-----------------------------------------------------------------------------
(* Sequence helpers                                                        *)

RECURSIVE Extend(_)
\* ss[1] \o ss[2] \o ...: a list grown by extend or append, one item after another
Extend(ss) == IF ss = <<>> THEN <<>> ELSE Head(ss) \o Extend(Tail(ss))

Range(s) == {s[i] : i \in DOMAIN s}

\* len([s for s in scheds if s.status == status])
CountStatus(scheds, status) == Cardinality({i \in DOMAIN scheds : scheds[i].status = status})

-----------------------------------------------------------------------------
(* Main pass: EmailScheduler                                               *)

\* EmailSchedule(...): the dataclass instance the pipelines build
EmailSchedule(contact_id, email_type, send_date, status, skip_reason, priority, campaign_instance_id, email_template, sms_template, event) ==
    [contact_id |-> contact_id, email_type |-> email_type,
     scheduled_send_date |-> isoformat(send_date), scheduled_send_time |-> send_time,
     status |-> status, skip_reason |-> skip_reason, priority |-> priority,
     campaign_instance_id |-> campaign_instance_id,
     email_template |-> email_template, sms_template |-> sms_template,
     scheduler_run_id |-> run_id,
     event_year |-> YearOf(event), event_month |-> MonthOf(event), event_day |-> DayOf(event)]

Eligible(c) == c.email # "" /\ c.state # "" /\ c.zip_code # ""

RECURSIVE Take(_, _)
Take(s, n) == IF n = 0 \/ s = <<>> THEN <<>> ELSE <<Head(s)>> \o Take(Tail(s), n - 1)

\* SELECT ... FROM contacts WHERE <non-empty email, state, zip_code> LIMIT batch_size
get_contacts_batch == Take(SelectSeq(contacts, Eligible), batch_size)

\* variant: the wipe without its status filter
clear_all_schedules(contact_ids) == {r \in email_schedules : r.contact_id \notin contact_ids}

\* DELETE FROM email_schedules WHERE status IN (...) AND contact_id IN (...)
clear_existing_schedules(contact_ids) ==
    {r \in email_schedules :
        ~(r.status \in {"pre-scheduled", "skipped"} /\ r.contact_id \in contact_ids)}

StatusOf(is_excluded) == IF is_excluded THEN "skipped" ELSE "pre-scheduled"

\* variant: a skipped schedule without its reason
NoReason(is_excluded) == NULL

ReasonOf(is_excluded) == IF is_excluded THEN "exclusion_window" ELSE NULL

\* a schedule whose status and skip_reason follow the exclusion test
Excludable(contact_id, email_type, send_date, is_excluded, priority, campaign_instance_id, email_template, sms_template, event) ==
    EmailSchedule(contact_id, email_type, send_date, StatusOf(is_excluded),
                  ReasonOf(is_excluded), priority, campaign_instance_id,
                  email_template, sms_template, event)

SendDateOk(send_date) == send_date >= today

\* the block shared by the birthday and the effective-date mail: "if anniversary:",
\* "if send_date >= today:", the exclusion test and the schedule
AnniversarySchedule(contact, email_type, email_template, anniversary, send_date) ==
    IF anniversary # NoDate /\ SendDateOk(send_date)
    THEN << Excludable(contact.id, Plain(email_type), send_date,
                       is_date_in_exclusion_window(send_date, contact), 5, 0,
                       email_template, NULL, anniversary) >>
    ELSE <<>>

\* variant: the mail sent on the anniversary itself
OnTheDay(contact, email_type, email_template, anniversary, days_before) ==
    AnniversarySchedule(contact, email_type, email_template, anniversary, anniversary)

DaysBefore(contact, email_type, email_template, anniversary, days_before) ==
    AnniversarySchedule(contact, email_type, email_template, anniversary,
                        anniversary - days_before)

BirthdaySchedules(contact) ==
    IF contact.birth_date # NullStr
    THEN DaysBefore(contact, "birthday", "birthday_default",
                    get_next_anniversary_date(contact.birth_date, today),
                    birthday_email_days_before)
    ELSE <<>>

EffectiveDateSchedules(contact) ==
    IF contact.effective_date # NullStr
    THEN DaysBefore(contact, "effective_date", "effective_date_default",
                    get_next_anniversary_date(contact.effective_date, today),
                    effective_date_days_before)
    ELSE <<>>

\* date(today.year, 9, 15), or next year's when that is not after today
AepOf(this_year) ==
    IF this_year <= today THEN Ymd2Ord(YearOf(today) + 1, aep_month, aep_day) ELSE this_year

AepDate == AepOf(Ymd2Ord(YearOf(today), aep_month, aep_day))

AepOn(contact, aep_date) ==
    << Excludable(contact.id, Plain("aep"), aep_date,
                  is_date_in_exclusion_window(aep_date, contact), 5, 0,
                  "aep_default", NULL, aep_date) >>

AepSchedules(contact) == AepOn(contact, AepDate)

\* variant: the post-window mail whether or not a mail of the contact was skipped
PostWindowAlways(contact, any_skipped, exclusion_window_end, post_window_date) ==
    IF exclusion_window_end # NoDate /\ post_window_date >= today
    THEN << EmailSchedule(contact.id, Plain("post_window"), post_window_date, "pre-scheduled",
                          NULL, 3, 0, "post_window_default", NULL, post_window_date) >>
    ELSE <<>>

PostWindowOn(contact, any_skipped, exclusion_window_end, post_window_date) ==
    IF any_skipped /\ exclusion_window_end # NoDate /\ post_window_date >= today
    THEN << EmailSchedule(contact.id, Plain("post_window"), post_window_date, "pre-scheduled",
                          NULL, 3, 0, "post_window_default", NULL, post_window_date) >>
    ELSE <<>>

PostWindowAfter(contact, any_skipped, exclusion_window_end) ==
    PostWindowOn(contact, any_skipped, exclusion_window_end, exclusion_window_end + 1)

PostWindowSchedules(contact, contact_schedules) ==
    PostWindowAfter(contact,
                    \E i \in DOMAIN contact_schedules : contact_schedules[i].status = "skipped",
                    calculate_exclusion_window(contact, today)[2])

WithPostWindow(contact, first) == first \o PostWindowSchedules(contact, first)

ContactSchedules(contact) ==
    WithPostWindow(contact, BirthdaySchedules(contact) \o EffectiveDateSchedules(contact)
                               \o AepSchedules(contact))

schedule_anniversary_emails(cs) == Extend([i \in DOMAIN cs |-> ContactSchedules(cs[i])])

\* SELECT ... FROM campaign_instances WHERE the active range holds today's ISO text
get_active_campaign_instances ==
    LET t == isoformat(today)
        Active(ci) == /\ (ci.active_start_date = NullStr \/ StrLe(ci.active_start_date, t))
                      /\ (ci.active_end_date = NullStr \/ StrLe(t, ci.active_end_date))
    IN SelectSeq(campaign_instances, Active)

\* SELECT ... FROM campaign_types WHERE name = ? AND active = TRUE; {} stands for None
get_campaign_type(name) == {ct \in campaign_types : ct.name = name /\ ct.active}

\* {row[0]: row[1] for row in cursor.fetchall()}: a later row of a contact replaces an earlier
campaign_targets(instance_id) ==
    LET rows == SelectSeq(contact_campaigns,
                          LAMBDA cc : cc.campaign_instance_id = instance_id /\ cc.status = "pending")
        Last(c) == CHOOSE i \in DOMAIN rows :
                      /\ rows[i].contact_id = c
                      /\ \A j \in DOMAIN rows : rows[j].contact_id = c => j <= i
    IN [c \in {rows[i].contact_id : i \in DOMAIN rows} |-> rows[Last(c)].trigger_date]

CampaignOn(instance, campaign_type, contact, trigger_date, send_date) ==
    IF trigger_date = NoDate \/ send_date < today
    THEN <<>>
    ELSE << Excludable(contact.id, CampaignEmailType(campaign_type.name), send_date,
                       IF campaign_type.respect_exclusion_windows
                       THEN is_date_in_exclusion_window(send_date, contact) ELSE FALSE,
                       campaign_type.priority, instance.id,
                       instance.email_template, instance.sms_template, trigger_date) >>

\* variant: the campaign mail sent on the trigger date itself
CampaignAtTrigger(instance, campaign_type, contact, trigger_date) ==
    CampaignOn(instance, campaign_type, contact, trigger_date, trigger_date)

CampaignAt(instance, campaign_type, contact, trigger_date) ==
    CampaignOn(instance, campaign_type, contact, trigger_date,
               trigger_date - campaign_type.days_before_event)

\* one targeted contact of one instance: the body of "for contact in contacts"
CampaignSchedule(instance, campaign_type, contact, trigger_date_str) ==
    IF trigger_date_str = NullStr THEN <<>>
    ELSE CampaignAt(instance, campaign_type, contact, strptime(trigger_date_str))

TargetSchedule(instance, found, targets, contact) ==
    IF contact.id \in DOMAIN targets
    THEN CampaignSchedule(instance, CHOOSE ct \in found : TRUE, contact, targets[contact.id])
    ELSE <<>>

TargetsSchedules(instance, found, targets, cs) ==
    IF found = {} THEN <<>>
    ELSE Extend([i \in DOMAIN cs |-> TargetSchedule(instance, found, targets, cs[i])])

InstanceSchedules(instance, cs) ==
    TargetsSchedules(instance, get_campaign_type(instance.campaign_type),
                     campaign_targets(instance.id), cs)

schedule_campaign_emails(cs) ==
    Extend([k \in DOMAIN get_active_campaign_instances |->
               InstanceSchedules(get_active_campaign_instances[k], cs)])

-----------------------------------------------------------------------------
(* Load balancer                                                           *)

\* int(hashlib.md5(f"{contact_id}_effective_date_{event_year}".encode()).hexdigest(), 16),
\* its last six decimal digits (which fix the residue modulo 5), for the
\* identifiers and years of the model
Md5Tail ==
        <<1, 2023>> :> 322433 @@
        <<1, 2024>> :> 197685 @@
        <<1, 2025>> :> 695030 @@
        <<1, 2026>> :> 802767 @@
        <<1, 2027>> :> 352022 @@
        <<2, 2023>> :> 255845 @@
        <<2, 2024>> :> 257738 @@
        <<2, 2025>> :> 117258 @@
        <<2, 2026>> :> 130475 @@
        <<2, 2027>> :> 580542 @@
        <<3, 2023>> :> 77295 @@
        <<3, 2024>> :> 401386 @@
        <<3, 2025>> :> 390657 @@
        <<3, 2026>> :> 616550 @@
        <<3, 2027>> :> 509352 @@
        <<4, 2023>> :> 124410 @@
        <<4, 2024>> :> 543812 @@
        <<4, 2025>> :> 109553 @@
        <<4, 2026>> :> 409312 @@
        <<4, 2027>> :> 532079 @@
        <<5, 2023>> :> 666424 @@
        <<5, 2024>> :> 984747 @@
        <<5, 2025>> :> 419277 @@
        <<5, 2026>> :> 861240 @@
        <<5, 2027>> :> 30325

\* variant: a jitter that differs from one run to the next
jitter_days_of_run(contact_id, email_type, event_year) ==
    ((Md5Tail[<<contact_id, event_year>>] + run_id) % ed_smoothing_window_days) - 2

jitter_days(contact_id, email_type, event_year) ==
    (Md5Tail[<<contact_id, event_year>>] % ed_smoothing_window_days) - 2

Min(a, b) == IF a < b THEN a ELSE b

\* int(total_contacts * 0.07), total_contacts being SELECT COUNT(*) FROM contacts
daily_cap == ((Len(contacts) + uncontactable) * 7) \div 100

\* min(config['ed_daily_soft_limit'], int(daily_cap * 0.3))
ed_soft_limit == Min(ed_daily_soft_limit, (daily_cap * 3) \div 10)

ed_daily_counts(scheds, d) ==
    Cardinality({i \in DOMAIN scheds :
        /\ scheds[i].status = "pre-scheduled"
        /\ scheds[i].email_type = Plain("effective_date")
        /\ scheds[i].scheduled_send_date = d})

\* variant: the smoothed date is taken whatever it is
AnyDate(new_date) == TRUE

NotInPast(new_date) == new_date >= today

\* variant: smoothing from the soft limit on
AtSoftLimit(count) == count >= ed_soft_limit

\* "ed_daily_counts[schedule.scheduled_send_date] > ed_soft_limit"
OverSoftLimit(count) == count > ed_soft_limit

Smooth(scheds, schedule) ==
    IF /\ schedule.email_type = Plain("effective_date")
       /\ schedule.status = "pre-scheduled"
       /\ OverSoftLimit(ed_daily_counts(scheds, schedule.scheduled_send_date))
    THEN LET original_date == strptime(schedule.scheduled_send_date)
             new_date == original_date
                           + jitter_days(schedule.contact_id, schedule.email_type, schedule.event_year)
         IN IF NotInPast(new_date)
            THEN [schedule EXCEPT !.scheduled_send_date = isoformat(new_date)]
            ELSE schedule
    ELSE schedule

\* pre-scheduled rows of scheds dated d
daily_counts(scheds, d) ==
    Cardinality({i \in DOMAIN scheds :
        /\ scheds[i].status = "pre-scheduled"
        /\ scheds[i].scheduled_send_date = d})

\* "count > daily_cap * self.config['overage_threshold']", the threshold being 1.2
OverDailyCap(count) == count * 10 > daily_cap * 12

\* variant: rows of a day over the daily cap are suppressed
SuppressOverflow(scheds) ==
    [i \in DOMAIN scheds |->
        IF /\ scheds[i].status = "pre-scheduled"
           /\ OverDailyCap(daily_counts(scheds, scheds[i].scheduled_send_date))
        THEN [scheds[i] EXCEPT !.status = "skipped", !.skip_reason = "daily_cap"]
        ELSE Smooth(scheds, scheds[i])]

apply_load_balancing(scheds) == [i \in DOMAIN scheds |-> Smooth(scheds, scheds[i])]

-----------------------------------------------------------------------------
(* Frequency limiter                                                       *)

\* variant: the count of recent messages with the follow-ups among them
recent_counts_with_followups(c) ==
    Cardinality({r \in email_schedules :
        /\ r.contact_id = c
        /\ StrLe(isoformat(today - period_days), r.scheduled_send_date)
        /\ StrLt(r.scheduled_send_date, isoformat(today))
        /\ r.status \in {"sent", "delivered", "pre-scheduled"}})

\* SELECT contact_id, COUNT(*) ... GROUP BY contact_id, read as recent_counts.get(c, 0)
recent_counts(c) ==
    LET period_start == isoformat(today - period_days)
        t == isoformat(today)
    IN Cardinality({r \in email_schedules :
            /\ r.contact_id = c
            /\ StrLe(period_start, r.scheduled_send_date)
            /\ StrLt(r.scheduled_send_date, t)
            /\ r.status \in {"sent", "delivered", "pre-scheduled"}
            /\ ~IsFollowupType(r.email_type)})

\* variant: the walk goes by date alone
DateLe(a, b) == StrLe(a.scheduled_send_date, b.scheduled_send_date)

\* key=lambda s: (s.priority, s.scheduled_send_date)
KeyLe(a, b) ==
    \/ a.priority < b.priority
    \/ a.priority = b.priority /\ StrLe(a.scheduled_send_date, b.scheduled_send_date)

RECURSIVE InsertSorted(_, _)
\* x placed after every element whose key is not greater (list.sort is stable)
InsertSorted(sorted, x) ==
    IF sorted = <<>> THEN <<x>>
    ELSE IF KeyLe(Head(sorted), x) THEN <<Head(sorted)>> \o InsertSorted(Tail(sorted), x)
    ELSE <<x>> \o sorted

RECURSIVE SortSchedules(_)
SortSchedules(s) ==
    IF s = <<>> THEN <<>>
    ELSE InsertSorted(SortSchedules(SubSeq(s, 1, Len(s) - 1)), s[Len(s)])

\* variant: one message more than the limit is let through
UpToLimit(total_count) == total_count <= max_emails_per_period

UnderLimit(total_count) == total_count < max_emails_per_period

RECURSIVE Walk(_, _, _)
\* the loop over the sorted list; admitted[c] is contact_scheduled_count[c]
Walk(sorted, i, admitted) ==
    IF i > Len(sorted) THEN <<>>
    ELSE LET schedule == sorted[i]
             c == schedule.contact_id
             total_count == recent_counts(c) + admitted[c]
         IN IF UnderLimit(total_count)
            THEN <<schedule>> \o Walk(sorted, i + 1, [admitted EXCEPT ![c] = @ + 1])
            ELSE << [schedule EXCEPT !.status = "skipped", !.skip_reason = "frequency_limit"] >>
                   \o Walk(sorted, i + 1, admitted)

enforce_frequency_limits(scheds) ==
    Walk(SortSchedules(scheds), 1, [c \in {scheds[i].contact_id : i \in DOMAIN scheds} |-> 0])

-----------------------------------------------------------------------------
(* Persister                                                               *)

\* the uniqueness contract of table email_schedules
UniqueKey(r) == <<r.contact_id, r.email_type, r.scheduled_send_date>>

\* the row a statement's VALUES tuple becomes, with its AUTOINCREMENT id
Stored(s, id, meta) ==
    [id |-> id, contact_id |-> s.contact_id, email_type |-> s.email_type,
     scheduled_send_date |-> s.scheduled_send_date, scheduled_send_time |-> s.scheduled_send_time,
     status |-> s.status, skip_reason |-> s.skip_reason, priority |-> s.priority,
     campaign_instance_id |-> s.campaign_instance_id,
     email_template |-> s.email_template, sms_template |-> s.sms_template,
     scheduler_run_id |-> s.scheduler_run_id,
     event_year |-> s.event_year, event_month |-> s.event_month, event_day |-> s.event_day,
     metadata |-> meta]

\* INSERT OR REPLACE: the conflicting row is deleted and the new one inserted
InsertOrReplace(st, s, meta) ==
    [table |-> {r \in st.table : UniqueKey(r) # UniqueKey(s)} \cup {Stored(s, st.next, meta)},
     next |-> st.next + 1]

\* INSERT OR IGNORE of one VALUES tuple into st.table
InsertOrIgnore(st, s, meta) ==
    IF \E r \in st.table : UniqueKey(r) = UniqueKey(s)
    THEN st
    ELSE [table |-> st.table \cup {Stored(s, st.next, meta)}, next |-> st.next + 1]

RECURSIVE InsertMany(_, _, _)
\* cursor.executemany over the list of VALUES tuples, in order; metas[i] is the
\* catchup_note of scheds[i]
InsertMany(st, scheds, metas) ==
    IF scheds = <<>> THEN st
    ELSE InsertMany(InsertOrIgnore(st, Head(scheds), Head(metas)), Tail(scheds), Tail(metas))

save_schedules(st, scheds) == InsertMany(st, scheds, [i \in DOMAIN scheds |-> NoMeta])

-----------------------------------------------------------------------------
(* Follow-up pass: FollowupScheduler                                       *)

followup_days_after == 2
lookback_days == 35

\* table tracking_clicks; clicked_at is kept to its date part
tracking_clicks ==
    { [contact_id |-> 1, clicked_at |-> <<2024, 4, 29>>],
      [contact_id |-> 2, clicked_at |-> <<2024, 9, 15>>] }

EventMeta(text, flag, yes_count, condition_key) ==
    [text |-> text, has_medical_conditions |-> flag,
     main_questions_yes_count |-> yes_count, condition_key |-> condition_key]

\* table contact_events; metadata.text is "json" for parsable JSON text, else
\* "null", "empty" or "bad"
contact_events ==
    { [contact_id |-> 1, event_type |-> "eligibility_answered", created_at |-> <<2024, 4, 30>>,
       metadata |-> EventMeta("json", FALSE, 2, FALSE)],
      [contact_id |-> 2, event_type |-> "eligibility_answered", created_at |-> <<2024, 5, 2>>,
       metadata |-> EventMeta("json", FALSE, 0, FALSE)],
      [contact_id |-> 3, event_type |-> "eligibility_answered", created_at |-> <<2024, 1, 1>>,
       metadata |-> EventMeta("null", FALSE, 0, FALSE)],
      [contact_id |-> 3, event_type |-> "page_view", created_at |-> <<2024, 9, 15>>,
       metadata |-> EventMeta("json", TRUE, 0, FALSE)] }

RECURSIVE SeqById(_)
\* the rows of a result set in rowid order
SeqById(S) ==
    IF S = {} THEN <<>>
    ELSE LET m == CHOOSE r \in S : \A q \in S : r.id <= q.id
         IN <<m>> \o SeqById(S \ {m})

get_eligible_initial_emails ==
    LET lookback_date == isoformat(today - lookback_days)
        t == isoformat(today)
        has_followup == {r.contact_id : r \in {q \in email_schedules :
                            IsFollowupType(q.email_type)
                            /\ StrLe(lookback_date, q.scheduled_send_date)}}
    IN SeqById({es \in email_schedules :
            /\ es.status \in {"sent", "delivered"}
            /\ StrLe(lookback_date, es.scheduled_send_date)
            /\ StrLe(es.scheduled_send_date, t)
            /\ \/ es.email_type \in {Plain("birthday"), Plain("effective_date"),
                                     Plain("aep"), Plain("post_window")}
               \/ IsCampaignType(es.email_type) /\ es.campaign_instance_id # 0
            /\ es.contact_id \notin has_followup})

InstanceById(id) == {campaign_instances[i] : i \in {j \in DOMAIN campaign_instances :
                                                     campaign_instances[j].id = id}}

\* campaign_instances JOIN campaign_types ON campaign_type = name WHERE ci.id = ?
JoinedType(id) == {ct \in campaign_types : \E ci \in InstanceById(id) : ci.campaign_type = ct.name}

\* variant: follow-ups enabled for every campaign
followup_enabled_always(campaign_instance_id) == TRUE

check_campaign_followup_enabled(campaign_instance_id) ==
    \E ct \in JoinedType(campaign_instance_id) : ct.enable_followups

get_contact_behavior(contact_id, initial_email_date) ==
    LET clicks == {k \in tracking_clicks :
                      k.contact_id = contact_id /\ StrLe(initial_email_date, k.clicked_at)}
        events == {e \in contact_events :
                      /\ e.contact_id = contact_id
                      /\ e.event_type = "eligibility_answered"
                      /\ StrLe(initial_email_date, e.created_at)}
        latest == CHOOSE e \in events : \A f \in events : StrLe(f.created_at, e.created_at)
        answered == events # {} /\ latest.metadata.text \notin {"null", "empty"}
        md == latest.metadata
    IN [clicked_links |-> clicks # {},
        answered_health_questions |-> answered,
        has_medical_conditions |->
            /\ answered
            /\ md.text = "json"
            /\ (md.has_medical_conditions \/ md.main_questions_yes_count > 0 \/ md.condition_key)]

\* variant: a click decides before the health questions are looked at
ClickedFirst(behavior) ==
    IF behavior.clicked_links THEN "2_clicked_no_hq"
    ELSE IF behavior.answered_health_questions
    THEN (IF behavior.has_medical_conditions THEN "4_hq_with_yes" ELSE "3_hq_no_yes")
    ELSE "1_cold"

determine_followup_type(behavior) ==
    IF behavior.answered_health_questions
    THEN (IF behavior.has_medical_conditions THEN "4_hq_with_yes" ELSE "3_hq_no_yes")
    ELSE IF behavior.clicked_links THEN "2_clicked_no_hq"
    ELSE "1_cold"

\* variant: the date is never lifted to tomorrow
NoLift(initial_email_date, tomorrow) == strptime(initial_email_date) + followup_days_after

\* the follow-up date for a source date, tomorrow being date.today() + 1 day
FollowupDateFrom(initial_email_date, tomorrow) ==
    LET followup_date == strptime(initial_email_date) + followup_days_after
    IN IF followup_date < tomorrow THEN tomorrow ELSE followup_date

calculate_followup_send_date(initial_email_date) ==
    FollowupDateFrom(initial_email_date, today + 1)

DefaultTemplate(tier) ==
    CASE tier = "1_cold" -> "followup_cold_template"
      [] tier = "2_clicked_no_hq" -> "followup_clicked_template"
      [] tier = "3_hq_no_yes" -> "followup_hq_no_conditions_template"
      [] tier = "4_hq_with_yes" -> "followup_hq_with_conditions_template"
      [] OTHER -> "followup_default_template"

\* <<email_template, sms_template>>
get_followup_template(tier, campaign_instance_id) ==
    LET over == {o \in UNION {ci.metadata : ci \in InstanceById(campaign_instance_id)} :
                    o.tier = tier}
    IN IF campaign_instance_id # 0 /\ over # {}
       THEN LET o == CHOOSE x \in over : TRUE IN <<o.email, o.sms>>
       ELSE <<DefaultTemplate(tier), NULL>>

TierPriority(tier) ==
    CASE tier = "4_hq_with_yes" -> 1
      [] tier = "3_hq_no_yes" -> 2
      [] tier = "2_clicked_no_hq" -> 3
      [] tier = "1_cold" -> 4
      [] OTHER -> 5

get_followup_priority(tier, campaign_instance_id) ==
    LET joined == JoinedType(campaign_instance_id)
    IN IF campaign_instance_id # 0 /\ joined # {}
       THEN Min(TierPriority(tier), (CHOOSE ct \in joined : TRUE).priority + 1)
       ELSE TierPriority(tier)

\* FollowupScheduler.is_date_in_exclusion_window: the contact's state alone decides
followup_is_date_in_exclusion_window(send_date, contact_id) ==
    \E i \in DOMAIN contacts :
        contacts[i].id = contact_id /\ contacts[i].state \in {"CT", "MA", "NY", "WA"}

FollowupMeta(initial_email, behavior) ==
    [initial_email_id |-> initial_email.id, initial_email_type |-> initial_email.email_type,
     clicked_links |-> behavior.clicked_links,
     answered_health_questions |-> behavior.answered_health_questions,
     has_medical_conditions |-> behavior.has_medical_conditions,
     campaign_name |->
        IF initial_email.campaign_instance_id # 0
              /\ InstanceById(initial_email.campaign_instance_id) # {}
        THEN (CHOOSE ci \in InstanceById(initial_email.campaign_instance_id) : TRUE).instance_name
        ELSE NULL]

\* the FollowupSchedule built for one initial email, or nothing; the metadata
\* travels with the schedule
FollowupFor(initial_email) ==
    LET behavior == get_contact_behavior(initial_email.contact_id,
                                         initial_email.scheduled_send_date)
        tier == determine_followup_type(behavior)
        send_date == calculate_followup_send_date(initial_email.scheduled_send_date)
        tpl == get_followup_template(tier, initial_email.campaign_instance_id)
    IN IF \/ initial_email.campaign_instance_id # 0
             /\ ~check_campaign_followup_enabled(initial_email.campaign_instance_id)
          \/ followup_is_date_in_exclusion_window(send_date, initial_email.contact_id)
       THEN <<>>
       ELSE << [contact_id |-> initial_email.contact_id,
                email_type |-> FollowupEmailType(tier),
                scheduled_send_date |-> isoformat(send_date),
                scheduled_send_time |-> send_time,
                status |-> "pre-scheduled", skip_reason |-> NULL,
                priority |-> get_followup_priority(tier, initial_email.campaign_instance_id),
                campaign_instance_id |-> initial_email.campaign_instance_id,
                email_template |-> tpl[1], sms_template |-> tpl[2],
                scheduler_run_id |-> run_id,
                event_year |-> 0, event_month |-> 0, event_day |-> 0,
                metadata |-> FollowupMeta(initial_email, behavior)] >>

schedule_followups(initial_emails) ==
    Extend([i \in DOMAIN initial_emails |-> FollowupFor(initial_emails[i])])

save_followup_schedules(st, scheds) ==
    InsertMany(st, scheds, [i \in DOMAIN scheds |-> scheds[i].metadata])

-----------------------------------------------------------------------------
(* Initial store                                                           *)

\* the k-th message sent to contact 1 before the first pass: a rate_increase
\* campaign message of instance 1, k days ago
HistoryRow(k, day) ==
    Stored([contact_id |-> 1, email_type |-> CampaignEmailType("rate_increase"),
            scheduled_send_date |-> isoformat(day - k), scheduled_send_time |-> send_time,
            status |-> IF k % 2 = 1 THEN "sent" ELSE "delivered", skip_reason |-> NULL,
            priority |-> 1, campaign_instance_id |-> 1,
            email_template |-> "rate_increase_template_v1",
            sms_template |-> "rate_increase_sms_v1", scheduler_run_id |-> 0,
            event_year |-> YearOf(day - k + 14), event_month |-> MonthOf(day - k + 14),
            event_day |-> DayOf(day - k + 14)], k, NoMeta)

\* a follow-up to HistoryRow(2, day), sent yesterday
HistoryFollowup(id, day) ==
    Stored([contact_id |-> 1, email_type |-> FollowupEmailType("1_cold"),
            scheduled_send_date |-> isoformat(day - 1), scheduled_send_time |-> send_time,
            status |-> "sent", skip_reason |-> NULL, priority |-> 2,
            campaign_instance_id |-> 1, email_template |-> "followup_cold_template",
            sms_template |-> NULL, scheduler_run_id |-> 0,
            event_year |-> 0, event_month |-> 0, event_day |-> 0], id,
           [initial_email_id |-> 2, initial_email_type |-> CampaignEmailType("rate_increase"),
            clicked_links |-> FALSE, answered_health_questions |-> FALSE,
            has_medical_conditions |-> FALSE, campaign_name |-> "rate_increase_q1_2024"])

\* a birthday message sent three days ago to contact 3, who may lie outside the batch
HistoryOutside(id, day) ==
    Stored([contact_id |-> 3, email_type |-> Plain("birthday"),
            scheduled_send_date |-> isoformat(day - 3), scheduled_send_time |-> send_time,
            status |-> "sent", skip_reason |-> NULL, priority |-> 5,
            campaign_instance_id |-> 0, email_template |-> "birthday_default",
            sms_template |-> NULL, scheduler_run_id |-> 0,
            event_year |-> YearOf(day + 11), event_month |-> MonthOf(day + 11),
            event_day |-> DayOf(day + 11)], id, NoMeta)

\* an effective_date message sent to contact 3 this very day
HistoryToday(id, day) ==
    Stored([contact_id |-> 3, email_type |-> Plain("effective_date"),
            scheduled_send_date |-> isoformat(day), scheduled_send_time |-> send_time,
            status |-> "sent", skip_reason |-> NULL, priority |-> 5,
            campaign_instance_id |-> 0, email_template |-> "effective_date_default",
            sms_template |-> NULL, scheduler_run_id |-> 0,
            event_year |-> YearOf(day + 30), event_month |-> MonthOf(day + 30),
            event_day |-> DayOf(day + 30)], id, NoMeta)

\* h messages already sent to contact 1; with four of them, a sent follow-up as
\* well; with six, two messages sent to contact 3 as well
History(h, day) ==
    {HistoryRow(k, day) : k \in 1..h}
        \cup (IF h = 4 THEN {HistoryFollowup(h + 1, day)} ELSE {})
        \cup (IF h = 6 THEN {HistoryOutside(h + 1, day), HistoryToday(h + 2, day)} ELSE {})

NoRun == [valid |-> FALSE, today |-> 0, input |-> {}, out |-> {}]
NoCalc == [contact |-> Contact(0, "", "", "", NullStr, NullStr), reference |-> 0]
NoCalcOut == [call |-> "none", anniversary |-> 0, window |-> <<0, 0>>]

Init ==
    /\ today \in TodayChoices
    /\ \E f \in [1..NumContacts -> 1..Len(Profiles)] :
          /\ \A i \in 1..NumContacts : f[i] \in ProfilesFor(i)
          /\ contacts = [i \in 1..NumContacts |-> [Profiles[f[i]] EXCEPT !.id = i]]
    /\ \E h \in HistChoices :
          /\ email_schedules = History(h, today)
          /\ next_id = Cardinality(History(h, today)) + 1
    /\ pc = "idle"
    /\ run_id = 0
    /\ batch = <<>>
    /\ schedules = <<>>
    /\ run_day = <<>>
    /\ prev_run = NoRun
    /\ ticks = 0
    /\ scheduler_checkpoints = {}
    /\ run_input = {}
    /\ calc_in = NoCalc
    /\ calc_out = NoCalcOut
    /\ raised = NULL
    /\ uncontactable \in UncontactableChoices

-----------------------------------------------------------------------------
(* run_scheduler, step by step                                             *)

Checkpoint(status, processed, scheduled, skipped, error) ==
    [scheduler_run_id |-> run_id, status |-> status, contacts_processed |-> processed,
     emails_scheduled |-> scheduled, emails_skipped |-> skipped, error_message |-> error]

\* create_checkpoint: INSERT for 'started', UPDATE ... WHERE scheduler_run_id = ? otherwise
create_checkpoint(table, cp) ==
    IF cp.status = "started" THEN table \cup {cp}
    ELSE {IF r.scheduler_run_id = cp.scheduler_run_id THEN cp ELSE r : r \in table}

ContactIds(cs) == {cs[i].id : i \in DOMAIN cs}

\* what a pass produced, without the run identifier
Output(scheds) == {[scheds[i] EXCEPT !.scheduler_run_id = 0] : i \in DOMAIN scheds}

\* run entry: a fresh run identifier, the 'started' checkpoint, the batch of contacts
StartRun ==
    /\ pc = "idle"
    /\ run_id < MaxRuns
    /\ run_id' = run_id + 1
    /\ run_day' = Append(run_day, today)
    /\ batch' = get_contacts_batch
    /\ scheduler_checkpoints' =
          LET started == scheduler_checkpoints
                            \cup {[Checkpoint("started", 0, 0, 0, NULL) EXCEPT
                                      !.scheduler_run_id = run_id + 1]}
          IN IF get_contacts_batch = <<>>
             THEN {IF r.scheduler_run_id = run_id + 1 THEN [r EXCEPT !.status = "completed"] ELSE r
                      : r \in started}
             ELSE started
    /\ pc' = IF get_contacts_batch = <<>> THEN "idle" ELSE "clear"
    /\ raised' = NULL
    /\ UNCHANGED <<today, contacts, email_schedules, next_id, schedules, prev_run, ticks,
                   run_input, calc_in, calc_out, uncontactable>>

ClearExisting ==
    /\ pc = "clear"
    /\ email_schedules' = clear_existing_schedules(ContactIds(batch))
    /\ run_input' = email_schedules'
    /\ pc' = "anniversary"
    /\ UNCHANGED <<today, contacts, next_id, run_id, batch, schedules, run_day, prev_run,
                   ticks, scheduler_checkpoints, calc_in, calc_out, raised, uncontactable>>

ScheduleAnniversary ==
    /\ pc = "anniversary"
    /\ schedules' = schedule_anniversary_emails(batch)
    /\ pc' = "campaign"
    /\ UNCHANGED <<today, contacts, email_schedules, next_id, run_id, batch, run_day,
                   prev_run, ticks, scheduler_checkpoints, run_input, calc_in, calc_out, raised, uncontactable>>

ScheduleCampaign ==
    /\ pc = "campaign"
    /\ schedules' = schedules \o schedule_campaign_emails(batch)
    /\ pc' = "balance"
    /\ UNCHANGED <<today, contacts, email_schedules, next_id, run_id, batch, run_day,
                   prev_run, ticks, scheduler_checkpoints, run_input, calc_in, calc_out, raised, uncontactable>>

ApplyLoadBalancing ==
    /\ pc = "balance"
    /\ schedules' = apply_load_balancing(schedules)
    /\ pc' = "limit"
    /\ UNCHANGED <<today, contacts, email_schedules, next_id, run_id, batch, run_day,
                   prev_run, ticks, scheduler_checkpoints, run_input, calc_in, calc_out, raised, uncontactable>>

EnforceFrequencyLimits ==
    /\ pc = "limit"
    /\ schedules' = enforce_frequency_limits(schedules)
    /\ pc' = "save"
    /\ UNCHANGED <<today, contacts, email_schedules, next_id, run_id, batch, run_day,
                   prev_run, ticks, scheduler_checkpoints, run_input, calc_in, calc_out, raised, uncontactable>>

SaveSchedules ==
    /\ pc = "save"
    /\ LET st == save_schedules([table |-> email_schedules, next |-> next_id], schedules)
       IN /\ email_schedules' = st.table
          /\ next_id' = st.next
    /\ pc' = "checkpoint"
    /\ UNCHANGED <<today, contacts, run_id, batch, schedules, run_day, prev_run, ticks,
                   scheduler_checkpoints, run_input, calc_in, calc_out, raised, uncontactable>>

CompleteRun ==
    /\ pc = "checkpoint"
    /\ scheduler_checkpoints' =
          create_checkpoint(scheduler_checkpoints,
              Checkpoint("completed", Len(batch),
                         CountStatus(schedules, "pre-scheduled"),
                         CountStatus(schedules, "skipped"), NULL))
    /\ prev_run' = [valid |-> TRUE, today |-> today, input |-> run_input,
                    out |-> Output(schedules)]
    /\ pc' = "idle"
    /\ UNCHANGED <<today, contacts, email_schedules, next_id, run_id, batch, schedules,
                   run_day, ticks, run_input, calc_in, calc_out, raised, uncontactable>>

\* the handler of run_scheduler: create_checkpoint('failed', error_message=str(e))
Failed(error) == Checkpoint("failed", 0, 0, 0, error)

\* str(e) of the sqlite3.OperationalError a statement raises on a database fault
database_error == "database is locked"

\* init_database_schema raises (a statement of it fails on the database): the
\* 'started' checkpoint is not written yet, the handler's UPDATE finds no row of
\* this run, and the exception goes to the caller
RaiseAtEntry ==
    /\ pc = "idle"
    /\ run_id < MaxRuns
    /\ run_id' = run_id + 1
    /\ run_day' = Append(run_day, today)
    /\ scheduler_checkpoints' =
          create_checkpoint(scheduler_checkpoints,
                            [Failed(database_error) EXCEPT !.scheduler_run_id = run_id + 1])
    /\ raised' = database_error
    /\ UNCHANGED <<today, contacts, email_schedules, next_id, pc, batch, schedules, prev_run,
                   ticks, run_input, calc_in, calc_out, uncontactable>>

\* get_contacts_batch raises, after the 'started' checkpoint
RaiseAtBatch ==
    /\ pc = "idle"
    /\ run_id < MaxRuns
    /\ run_id' = run_id + 1
    /\ run_day' = Append(run_day, today)
    /\ scheduler_checkpoints' =
          create_checkpoint(scheduler_checkpoints
                               \cup {[Checkpoint("started", 0, 0, 0, NULL) EXCEPT
                                         !.scheduler_run_id = run_id + 1]},
                            [Failed(database_error) EXCEPT !.scheduler_run_id = run_id + 1])
    /\ raised' = database_error
    /\ UNCHANGED <<today, contacts, email_schedules, next_id, pc, batch, schedules, prev_run,
                   ticks, run_input, calc_in, calc_out, uncontactable>>

\* a later step that works on the database raises; the locals of the pass are lost
RaiseAtStep ==
    /\ pc \in {"clear", "campaign", "limit", "save"}
    /\ scheduler_checkpoints' = create_checkpoint(scheduler_checkpoints, Failed(database_error))
    /\ raised' = database_error
    /\ batch' = <<>>
    /\ schedules' = <<>>
    /\ pc' = "idle"
    /\ UNCHANGED <<today, contacts, email_schedules, next_id, run_id, run_day, prev_run,
                   ticks, run_input, calc_in, calc_out, uncontactable>>

-----------------------------------------------------------------------------
(* run_followup_scheduler, step by step                                    *)

StartFollowups ==
    /\ pc = "idle"
    /\ run_id < MaxRuns
    /\ run_id' = run_id + 1
    /\ run_day' = Append(run_day, today)
    /\ LET initial_emails == get_eligible_initial_emails
       IN IF initial_emails = <<>>
          THEN pc' = "idle" /\ schedules' = <<>>
          ELSE /\ schedules' = [i \in DOMAIN initial_emails |-> initial_emails[i]]
               /\ pc' = "fu_schedule"
    /\ raised' = NULL
    /\ UNCHANGED <<today, contacts, email_schedules, next_id, batch, prev_run, ticks,
                   scheduler_checkpoints, run_input, calc_in, calc_out, uncontactable>>

ScheduleFollowups ==
    /\ pc = "fu_schedule"
    /\ schedules' = schedule_followups(schedules)
    /\ pc' = "fu_save"
    /\ UNCHANGED <<today, contacts, email_schedules, next_id, run_id, batch, run_day,
                   prev_run, ticks, scheduler_checkpoints, run_input, calc_in, calc_out, raised, uncontactable>>

SaveFollowups ==
    /\ pc = "fu_save"
    /\ LET st == save_followup_schedules([table |-> email_schedules, next |-> next_id], schedules)
       IN /\ email_schedules' = st.table
          /\ next_id' = st.next
    /\ pc' = "idle"
    /\ UNCHANGED <<today, contacts, run_id, batch, schedules, run_day, prev_run, ticks,
                   scheduler_checkpoints, run_input, calc_in, calc_out, raised, uncontactable>>

-----------------------------------------------------------------------------
(* Environment: the delivery worker and the calendar                       *)

Due(r) == r.status = "pre-scheduled" /\ StrLe(r.scheduled_send_date, isoformat(today))

\* the delivery worker sends every pre-scheduled row that is due
Deliver ==
    /\ pc = "idle"
    /\ \E r \in email_schedules : Due(r)
    /\ email_schedules' = {IF Due(r) THEN [r EXCEPT !.status = "sent"] ELSE r : r \in email_schedules}
    /\ UNCHANGED <<today, contacts, next_id, pc, run_id, batch, schedules, run_day, prev_run,
                   ticks, scheduler_checkpoints, run_input, calc_in, calc_out, raised, uncontactable>>

\* midnight passes between two passes
Tick ==
    /\ pc = "idle"
    /\ ticks < MaxTicks
    /\ today' = today + 1
    /\ ticks' = ticks + 1
    /\ UNCHANGED <<contacts, email_schedules, next_id, pc, run_id, batch, schedules, run_day,
                   prev_run, scheduler_checkpoints, run_input, calc_in, calc_out, raised, uncontactable>>

Next ==
    \/ StartRun \/ ClearExisting \/ ScheduleAnniversary \/ ScheduleCampaign
    \/ ApplyLoadBalancing \/ EnforceFrequencyLimits \/ SaveSchedules \/ CompleteRun
    \/ RaiseAtEntry \/ RaiseAtBatch \/ RaiseAtStep
    \/ StartFollowups \/ ScheduleFollowups \/ SaveFollowups
    \/ Deliver \/ Tick

Spec == Init /\ [][Next]_vars

-----------------------------------------------------------------------------
(* The date calculus on its own: one call of get_next_anniversary_date or  *)
(* of calculate_exclusion_window on an input drawn from CalcInputs         *)

CalcStates == {"CA", "NV", "MO", "NY", "ID", "TX"}

CalcBirths == {NullStr, <<2020, 2, 29>>, <<1960, 7, 1>>, <<1960, 1, 15>>, <<1960, 12, 31>>,
               <<2021, 2, 30>>}

CalcEffectives == {NullStr, <<2020, 5, 31>>, <<2020, 2, 29>>, <<2020, 13, 1>>}

CalcReferences ==
    {Ymd2Ord(2022, 6, 1), Ymd2Ord(2023, 6, 1), Ymd2Ord(2023, 2, 28), Ymd2Ord(2024, 2, 28),
     Ymd2Ord(2024, 2, 29), Ymd2Ord(2024, 5, 1), Ymd2Ord(2024, 7, 1), Ymd2Ord(2024, 12, 31)}

CalcInputs ==
    {[contact |-> Contact(1, "c@example.com", st, "90210", b, e), reference |-> r] :
        st \in CalcStates, b \in CalcBirths, e \in CalcEffectives, r \in CalcReferences}

InitCalc ==
    /\ calc_in \in CalcInputs
    /\ calc_out = NoCalcOut
    /\ raised = NULL
    /\ uncontactable = 0
    /\ today = calc_in.reference
    /\ contacts = <<calc_in.contact>>
    /\ email_schedules = {}
    /\ next_id = 1
    /\ pc = "idle"
    /\ run_id = 0
    /\ batch = <<>>
    /\ schedules = <<>>
    /\ run_day = <<>>
    /\ prev_run = NoRun
    /\ ticks = 0
    /\ scheduler_checkpoints = {}
    /\ run_input = {}

CallGetNextAnniversaryDate ==
    /\ calc_out.call = "none"
    /\ calc_out' = [call |-> "get_next_anniversary_date",
                    anniversary |-> get_next_anniversary_date(calc_in.contact.birth_date,
                                                              calc_in.reference),
                    window |-> <<NoDate, NoDate>>]
    /\ UNCHANGED <<today, contacts, email_schedules, next_id, pc, run_id, batch, schedules,
                   run_day, prev_run, ticks, scheduler_checkpoints, run_input, calc_in, raised, uncontactable>>

CallCalculateExclusionWindow ==
    /\ calc_out.call = "none"
    /\ calc_out' = [call |-> "calculate_exclusion_window", anniversary |-> NoDate,
                    window |-> calculate_exclusion_window(calc_in.contact, calc_in.reference)]
    /\ UNCHANGED <<today, contacts, email_schedules, next_id, pc, run_id, batch, schedules,
                   run_day, prev_run, ticks, scheduler_checkpoints, run_input, calc_in, raised, uncontactable>>

NextCalc == CallGetNextAnniversaryDate \/ CallCalculateExclusionWindow

SpecCalc == InitCalc /\ [][NextCalc]_vars

-----------------------------------------------------------------------------
(* Properties of the passes (checked under Spec)                           *)

\* rows of the store that pass number n produced
ProducedBy(n) == {r \in email_schedules : r.scheduler_run_id = n}

\* C1: every pre-scheduled row a main pass or a follow-up pass produced has
\* scheduled_send_date >= that pass's today: in the store, whatever has happened
\* since, and in the list the pass is about to save (birthday, effective_date after
\* smoothing, aep, post_window, campaign and followup_* rows alike).
C1_PreScheduledNotInPast ==
    /\ \A r \in email_schedules :
          r.scheduler_run_id >= 1 /\ r.status = "pre-scheduled" =>
              strptime(r.scheduled_send_date) >= run_day[r.scheduler_run_id]
    /\ pc \in {"save", "checkpoint", "fu_save"} =>
          \A i \in DOMAIN schedules :
              schedules[i].status = "pre-scheduled" =>
                  strptime(schedules[i].scheduled_send_date) >= today

\* a stored pre-scheduled effective_date row dated the very day of its pass, whose
\* smoothing offset is negative
C1_Witness ==
    \E r \in email_schedules :
        /\ r.scheduler_run_id >= 1
        /\ r.status = "pre-scheduled"
        /\ r.email_type = Plain("effective_date")
        /\ strptime(r.scheduled_send_date) = run_day[r.scheduler_run_id]
        /\ jitter_days(r.contact_id, r.email_type, r.event_year) < 0

\* the window computed for the contact of row r on the day of r's pass
WindowOfRow(r) == calculate_exclusion_window(contacts[r.contact_id], run_day[r.scheduler_run_id])

Between(d, w) == w[1] # NoDate /\ w[2] # NoDate /\ w[1] <= d /\ d <= w[2]

\* C2: every row persisted with skip_reason exclusion_window is dated inside the
\* contact's exclusion window, window_start <= scheduled_send_date <= window_end,
\* also when the window's start and end lie in different calendar years.
C2_ExclusionSkipInsideWindow ==
    \A r \in email_schedules :
        r.scheduler_run_id >= 1 /\ r.skip_reason = "exclusion_window" =>
            Between(strptime(r.scheduled_send_date), WindowOfRow(r))

\* non-follow-up rows of contact c with one of the statuses, dated in lo..hi
RowsIn(c, statuses, lo, hi) ==
    {r \in email_schedules :
        /\ r.contact_id = c
        /\ ~IsFollowupType(r.email_type)
        /\ r.status \in statuses
        /\ strptime(r.scheduled_send_date) \in lo..hi}

\* the carry-over: messages of the last period_days days
CarryOver(c) ==
    Cardinality(RowsIn(c, {"sent", "delivered", "pre-scheduled"}, today - period_days, today - 1))

\* pre-scheduled messages of the coming period_days days
Upcoming(c) == Cardinality(RowsIn(c, {"pre-scheduled"}, today, today + period_days - 1))

Rejected(x) == [x EXCEPT !.status = "skipped", !.skip_reason = "frequency_limit"]

\* out holds the rows of in, each as it was or rejected, in ascending
\* (priority, scheduled_send_date) order
SortedMarking(in, out) ==
    /\ Len(out) = Len(in)
    /\ \A i \in DOMAIN in :
          Cardinality({k \in DOMAIN in : in[k] = in[i]})
              = Cardinality({k \in DOMAIN out : out[k] = in[i] \/ out[k] = Rejected(in[i])})
    /\ \A i \in DOMAIN out : \A j \in DOMAIN out :
          i < j => \/ out[i].priority < out[j].priority
                   \/ /\ out[i].priority = out[j].priority
                      /\ strptime(out[i].scheduled_send_date) <= strptime(out[j].scheduled_send_date)

\* proposals of out[i]'s contact admitted before position i
AdmittedBefore(out, i) ==
    Cardinality({j \in 1..(i - 1) : out[j].contact_id = out[i].contact_id
                                    /\ out[j].skip_reason # "frequency_limit"})

\* position i of out is admitted, as it was proposed, if and only if carry-over plus
\* earlier admissions is under the limit, and is otherwise the proposal rejected
DecidedAt(in, out, i) ==
    IF CarryOver(out[i].contact_id) + AdmittedBefore(out, i) < max_emails_per_period
    THEN out[i] \in Range(in)
    ELSE out[i].status = "skipped" /\ out[i].skip_reason = "frequency_limit"

LimiterStep(in, out) ==
    /\ SortedMarking(in, out)
    /\ \A i \in DOMAIN out : DecidedAt(in, out, i)

\* C4: the limiter walks the proposals in ascending (priority, scheduled_send_date)
\* order and admits a proposal if and only if carry_over(contact) plus the number
\* of the contact's proposals admitted earlier in the walk is below
\* max_emails_per_period; a proposal not admitted stays in the output as skipped /
\* frequency_limit; follow-up rows do not count in the carry-over.
C4_LimiterWalk ==
    [][pc = "limit" /\ pc' = "save" => LimiterStep(schedules, schedules')]_vars

\* after the walk: a contact with four earlier messages and a sent follow-up, its
\* first proposal admitted and its second one rejected
C4_Witness ==
    /\ pc = "save"
    /\ \E i \in DOMAIN schedules : \E j \in DOMAIN schedules :
          /\ i < j
          /\ schedules[i].contact_id = schedules[j].contact_id
          /\ CarryOver(schedules[i].contact_id) = 4
          /\ \E r \in email_schedules :
                /\ r.contact_id = schedules[i].contact_id
                /\ IsFollowupType(r.email_type)
                /\ r.status = "sent"
                /\ strptime(r.scheduled_send_date) \in (today - period_days)..(today - 1)
          /\ AdmittedBefore(schedules, i) = 0
          /\ schedules[i].skip_reason # "frequency_limit"
          /\ AdmittedBefore(schedules, j) = 1
          /\ schedules[j].skip_reason = "frequency_limit"

\* rows the wipe of the batch is to delete
ToWipe == {r \in email_schedules : r.status \in {"pre-scheduled", "skipped"}
                                    /\ r.contact_id \in ContactIds(batch)}

\* C5: the wipe at the start of a main pass deletes exactly the pre-scheduled and
\* skipped rows of the batch's contacts (rows of other contacts stay as they are),
\* and no step of a main pass or a follow-up pass removes or changes a sent or
\* delivered row.
C5_WipeFrame ==
    [][/\ (pc = "clear" /\ pc' = "anniversary" => email_schedules' = email_schedules \ ToWipe)
       /\ \A r \in email_schedules : r.status \in {"sent", "delivered"} => r \in email_schedules'
      ]_vars

\* just after a wipe that deleted a row (its identifier is gone from the store): the
\* sent rows of a batch contact and a pre-scheduled row of a contact outside the
\* batch are still there
C5_Witness ==
    /\ pc = "anniversary"
    /\ \E k \in 1..(next_id - 1) : \A r \in email_schedules : r.id # k
    /\ \E r \in email_schedules : r.status = "sent" /\ r.contact_id \in ContactIds(batch)
    /\ \E r \in email_schedules : r.status = "pre-scheduled" /\ r.contact_id \notin ContactIds(batch)
    /\ \A r \in email_schedules : r.contact_id \in ContactIds(batch) => r.status \in {"sent", "delivered"}

\* the list a pass is about to save, with the metadata of each row
Saving == IF pc = "fu_save" THEN save_followup_schedules([table |-> email_schedules, next |-> next_id], schedules)
          ELSE save_schedules([table |-> email_schedules, next |-> next_id], schedules)

SavingAgain(st) == IF pc = "fu_save" THEN save_followup_schedules(st, schedules)
                   ELSE save_schedules(st, schedules)

C10_EveryEligibleContactHasAep ==
    pc = "checkpoint" =>
        \A i \in DOMAIN contacts :
            Eligible(contacts[i]) =>
                /\ Cardinality({r \in ProducedBy(run_id) :
                        r.contact_id = contacts[i].id /\ r.email_type = Plain("aep")}) = 1
                /\ \A r \in ProducedBy(run_id) :
                        r.contact_id = contacts[i].id /\ r.email_type = Plain("aep")
                            => r.scheduled_send_date = isoformat(AepDate)

\* positions of the pass's list that hold a row of contact id c with one of the types
RowsOf(c, types) ==
    {i \in DOMAIN schedules : schedules[i].contact_id = c /\ schedules[i].email_type \in types}

AnniversaryTypes == {Plain("birthday"), Plain("effective_date"), Plain("aep")}

\* one of the contact's birthday, effective_date or aep rows is skipped for exclusion,
\* the window has an end, and the day after it is not before today
PostWindowDue(contact) ==
    /\ \E i \in RowsOf(contact.id, AnniversaryTypes) :
          schedules[i].status = "skipped" /\ schedules[i].skip_reason = "exclusion_window"
    /\ calculate_exclusion_window(contact, today)[2] # NoDate
    /\ calculate_exclusion_window(contact, today)[2] + 1 >= today

IsPostWindowRow(r, contact) ==
    /\ r.scheduled_send_date = isoformat(calculate_exclusion_window(contact, today)[2] + 1)
    /\ r.priority = 3
    /\ r.email_template = "post_window_default"
    /\ r.status = "pre-scheduled"
    /\ r.skip_reason = NULL
    /\ (contact.state \in {"CT", "MA", "NY", "WA"} /\ YearOf(today) = 2024
            => r.scheduled_send_date = <<2025, 1, 1>>)

\* C11: in the output of the anniversary pipeline a contact of the batch has a
\* post_window row iff one of its birthday, effective_date or aep rows of the pass is
\* skipped for exclusion, its window end is not null and window_end + 1 >= today;
\* the row is single, dated window_end + 1, of priority 3, template
\* post_window_default and status pre-scheduled. For a year_round state with today
\* in 2024 it is dated 2025-01-01; for the CA contact born 1960-07-01 on
\* 2024-05-01 it exists and is dated 2024-08-31.
C11_PostWindow ==
    pc = "campaign" =>
        \A k \in DOMAIN batch :
            /\ (RowsOf(batch[k].id, {Plain("post_window")}) # {}) <=> PostWindowDue(batch[k])
            /\ Cardinality(RowsOf(batch[k].id, {Plain("post_window")})) <= 1
            /\ \A i \in RowsOf(batch[k].id, {Plain("post_window")}) :
                  IsPostWindowRow(schedules[i], batch[k])
            /\ (/\ batch[k].state = "CA"
                /\ batch[k].birth_date = <<1960, 7, 1>>
                /\ today = Ymd2Ord(2024, 5, 1))
                  => \E i \in RowsOf(batch[k].id, {Plain("post_window")}) :
                        schedules[i].scheduled_send_date = <<2024, 8, 31>>

\* the anniversary pipeline has run on 2024-05-01 for a batch holding the CA contact
\* born 1960-07-01, who gets the row for 2024-08-31, and a NY contact, who gets one
\* for 2025-01-01
C11_Witness ==
    /\ pc = "campaign"
    /\ today = Ymd2Ord(2024, 5, 1)
    /\ \E i \in DOMAIN schedules :
          /\ schedules[i].email_type = Plain("post_window")
          /\ contacts[schedules[i].contact_id].state = "CA"
          /\ schedules[i].scheduled_send_date = <<2024, 8, 31>>
    /\ \E i \in DOMAIN schedules :
          /\ schedules[i].email_type = Plain("post_window")
          /\ contacts[schedules[i].contact_id].state = "NY"
          /\ schedules[i].scheduled_send_date = <<2025, 1, 1>>

\* In-window of the date calculus: false without a window, start <= d <= end for a
\* window inside one year, d >= start or d <= end for one that spans two
InWindowOf(d, w) ==
    /\ w[1] # NoDate
    /\ w[2] # NoDate
    /\ IF YearOf(w[1]) = YearOf(w[2]) THEN w[1] <= d /\ d <= w[2] ELSE d >= w[1] \/ d <= w[2]

\* row r is what membership m of a campaign of type ct gives: dated
\* trigger_date - days_before_event, not before today, pre-scheduled when the type
\* does not respect exclusion windows, else skipped for exclusion iff in-window
CampaignRowOf(r, m, ct) ==
    /\ m.status = "pending"
    /\ m.contact_id = r.contact_id
    /\ m.campaign_instance_id = r.campaign_instance_id
    /\ m.trigger_date # NullStr
    /\ r.email_type = CampaignEmailType(ct.name)
    /\ r.scheduled_send_date = isoformat(strptime(m.trigger_date) - ct.days_before_event)
    /\ strptime(m.trigger_date) - ct.days_before_event >= today
    /\ IF /\ ct.respect_exclusion_windows
          /\ InWindowOf(strptime(m.trigger_date) - ct.days_before_event,
                        calculate_exclusion_window(contacts[r.contact_id], today))
       THEN r.status = "skipped" /\ r.skip_reason = "exclusion_window"
       ELSE r.status = "pre-scheduled" /\ r.skip_reason = NULL

\* C12: every row the campaign pipeline produces comes from a pending membership of
\* its contact and instance, is dated trigger_date - days_before_event of the
\* instance's type and not before today (a membership whose send_date < today gives
\* no row); it is pre-scheduled when the type's respect_exclusion_windows is unset,
\* whatever the contact's state, and skipped with reason exclusion_window exactly
\* when the flag is set and the date is in-window. A NY contact with trigger
\* 2024-06-01 and days_before_event 0 is pre-scheduled for 2024-06-01.
C12_CampaignRows ==
    pc = "balance" =>
        /\ \A i \in DOMAIN schedules :
              IsCampaignType(schedules[i].email_type) =>
                  \E k \in DOMAIN contact_campaigns, ct \in campaign_types :
                      /\ \E j \in DOMAIN campaign_instances :
                            /\ campaign_instances[j].id = schedules[i].campaign_instance_id
                            /\ campaign_instances[j].campaign_type = ct.name
                      /\ CampaignRowOf(schedules[i], contact_campaigns[k], ct)
        /\ \A k \in DOMAIN batch :
              (/\ batch[k].state = "NY"
               /\ batch[k].id = 2
               /\ today <= Ymd2Ord(2024, 6, 1))
                  => \E i \in DOMAIN schedules :
                        /\ schedules[i].contact_id = 2
                        /\ schedules[i].email_type = CampaignEmailType("initial_blast")
                        /\ schedules[i].scheduled_send_date = <<2024, 6, 1>>
                        /\ schedules[i].status = "pre-scheduled"

\* the campaign pipeline has produced a pre-scheduled initial_blast row for a NY
\* contact, a rate_increase row skipped for exclusion and a pre-scheduled
\* seasonal_promo row for a CA contact, and none for the membership whose send date
\* (2024-01-05 less 14 days) is past
C12_Witness ==
    /\ pc = "balance"
    /\ \E i \in DOMAIN schedules :
          /\ schedules[i].email_type = CampaignEmailType("initial_blast")
          /\ contacts[schedules[i].contact_id].state = "NY"
          /\ schedules[i].scheduled_send_date = <<2024, 6, 1>>
          /\ schedules[i].status = "pre-scheduled"
    /\ \E i \in DOMAIN schedules :
          /\ schedules[i].email_type = CampaignEmailType("rate_increase")
          /\ contacts[schedules[i].contact_id].state = "CA"
          /\ schedules[i].skip_reason = "exclusion_window"
    /\ \E i \in DOMAIN schedules :
          /\ schedules[i].email_type = CampaignEmailType("seasonal_promo")
          /\ contacts[schedules[i].contact_id].state = "CA"
          /\ schedules[i].status = "pre-scheduled"
    /\ \A i \in DOMAIN schedules :
          ~(schedules[i].contact_id = 2 /\ schedules[i].email_type = CampaignEmailType("rate_increase"))

\* instance ci is active on today: its active range, unbounded where null, holds today
ActiveToday(ci) ==
    /\ (ci.active_start_date = NullStr \/ strptime(ci.active_start_date) <= today)
    /\ (ci.active_end_date = NullStr \/ today <= strptime(ci.active_end_date))

\* the campaign types that exist, are active and carry the instance's type name
LiveTypes(ci) == {ct \in campaign_types : ct.name = ci.campaign_type /\ ct.active}

\* membership m is due in this pass: pending, of a batch contact, with a send date
\* that is not before today
DueMembership(m, ct) ==
    /\ m.status = "pending"
    /\ m.contact_id \in ContactIds(batch)
    /\ m.trigger_date # NullStr
    /\ strptime(m.trigger_date) # NoDate
    /\ strptime(m.trigger_date) - ct.days_before_event >= today

\* C13: in the output of the campaign pipeline every pending membership tuple
\* (contact_id, campaign_instance_id, trigger_date) of an instance active today with
\* an existing, active type, whose contact is in the batch and whose send date is
\* >= today, has its own campaign row, also when the contact has several pending
\* tuples with different trigger dates for the instance; an instance whose type is
\* missing or inactive has no row.
C13_EveryTupleYieldsRow ==
    pc = "balance" =>
        \A j \in DOMAIN campaign_instances :
            /\ \A k \in DOMAIN contact_campaigns, ct \in LiveTypes(campaign_instances[j]) :
                  (/\ ActiveToday(campaign_instances[j])
                   /\ contact_campaigns[k].campaign_instance_id = campaign_instances[j].id
                   /\ DueMembership(contact_campaigns[k], ct))
                      => \E i \in DOMAIN schedules :
                            /\ schedules[i].contact_id = contact_campaigns[k].contact_id
                            /\ schedules[i].campaign_instance_id = campaign_instances[j].id
                            /\ schedules[i].scheduled_send_date =
                                  isoformat(strptime(contact_campaigns[k].trigger_date)
                                               - ct.days_before_event)
            /\ LiveTypes(campaign_instances[j]) = {}
                  => \A i \in DOMAIN schedules :
                        schedules[i].campaign_instance_id # campaign_instances[j].id

\* follow-up rows of contact id c dated inside the lookback window
FollowupsOf(c) ==
    {r \in email_schedules :
        /\ r.contact_id = c
        /\ IsFollowupType(r.email_type)
        /\ strptime(r.scheduled_send_date) >= today - lookback_days}

\* C14: after any sequence of follow-up passes no contact has more than one
\* followup_* row dated inside the lookback window: a pass schedules nothing for a
\* contact that already has one, and at most one follow-up per contact in one pass,
\* also when the contact has several eligible sent or delivered source messages.
C14_OneFollowupPerContact ==
    \A c \in DOMAIN contacts : Cardinality(FollowupsOf(c)) <= 1

\* the exclusion window of the contact with id c, as the date calculus gives it on day
WindowOfContact(c, day) == calculate_exclusion_window(contacts[c], day)

\* the follow-up candidates of the pass in progress: its eligible initial emails,
\* less the campaign mails whose type has follow-ups disabled
FollowupCandidates ==
    {i \in DOMAIN get_eligible_initial_emails :
        get_eligible_initial_emails[i].campaign_instance_id # 0
            => check_campaign_followup_enabled(get_eligible_initial_emails[i].campaign_instance_id)}

FollowupDateOf(i) ==
    calculate_followup_send_date(get_eligible_initial_emails[i].scheduled_send_date)

\* C15: the follow-up pass writes a follow-up iff its send date is not in-window for
\* the contact under the full exclusion test of the date calculus: no follow-up row
\* of a pass is dated inside the contact's birthday_window, effective_date_window or
\* year_round window, and every candidate whose send date is outside the contact's
\* window is in the list the pass saves.
C15_FollowupFullExclusion ==
    /\ \A r \in email_schedules :
          r.scheduler_run_id >= 1 /\ IsFollowupType(r.email_type) =>
              ~InWindowOf(strptime(r.scheduled_send_date),
                          WindowOfContact(r.contact_id, run_day[r.scheduler_run_id]))
    /\ pc = "fu_save" =>
          \A i \in FollowupCandidates :
              ~InWindowOf(FollowupDateOf(i),
                          WindowOfContact(get_eligible_initial_emails[i].contact_id, today))
                  => \E j \in DOMAIN schedules :
                        /\ schedules[j].contact_id = get_eligible_initial_emails[i].contact_id
                        /\ schedules[j].scheduled_send_date = isoformat(FollowupDateOf(i))

\* row src may be followed up by a pass run on day: sent or delivered, dated in
\* [day - lookback_days, day], an anniversary mail or a campaign mail whose campaign
\* type has follow-ups enabled
FollowupSource(src, day) ==
    /\ src.status \in {"sent", "delivered"}
    /\ day - lookback_days <= strptime(src.scheduled_send_date)
    /\ strptime(src.scheduled_send_date) <= day
    /\ \/ src.email_type \in AnniversaryTypes \cup {Plain("post_window")}
       \/ /\ IsCampaignType(src.email_type)
          /\ \E j \in DOMAIN campaign_instances, ct \in campaign_types :
                /\ campaign_instances[j].id = src.campaign_instance_id
                /\ campaign_instances[j].campaign_type = ct.name
                /\ ct.enable_followups

\* C16: every followup_* row a follow-up pass wrote records in its metadata the id
\* of a stored row of the same contact that is sent or delivered, dated in
\* [today - lookback_days, today] of that pass, and an anniversary mail or a campaign
\* mail whose type has follow-ups enabled; no follow-up is written for a campaign
\* source whose type has enable_followups false.
C16_FollowupReferencesSource ==
    \A r \in email_schedules :
        r.scheduler_run_id >= 1 /\ IsFollowupType(r.email_type) =>
            \E src \in email_schedules :
                /\ src.id = r.metadata.initial_email_id
                /\ src.contact_id = r.contact_id
                /\ r.metadata.initial_email_type = src.email_type
                /\ FollowupSource(src, run_day[r.scheduler_run_id])

\* a follow-up pass has written a follow-up to an anniversary mail while a sent
\* initial_blast mail (follow-ups disabled) lay in its lookback window, and the
\* contact of that mail has no follow-up
C16_Witness ==
    /\ pc = "idle"
    /\ \E r \in email_schedules, src \in email_schedules, off \in email_schedules :
          /\ r.scheduler_run_id >= 1
          /\ IsFollowupType(r.email_type)
          /\ src.id = r.metadata.initial_email_id
          /\ src.email_type \in AnniversaryTypes
          /\ off.email_type = CampaignEmailType("initial_blast")
          /\ off.status = "sent"
          /\ run_day[r.scheduler_run_id] - lookback_days <= strptime(off.scheduled_send_date)
          /\ strptime(off.scheduled_send_date) <= run_day[r.scheduler_run_id]
          /\ \A q \in email_schedules :
                q.contact_id = off.contact_id => ~IsFollowupType(q.email_type)

\* the checkpoint rows of table cps that carry run identifier n
CheckpointsOf(cps, n) == {r \in cps : r.scheduler_run_id = n}

MainSteps == {"clear", "anniversary", "campaign", "balance", "limit", "save", "checkpoint"}

\* this step ends a main pass: its last step is taken or a step raises
MainPassEnds ==
    \/ pc \in MainSteps /\ pc' = "idle"
    \/ pc = "idle" /\ run_id' = run_id + 1 /\ raised' # NULL

\* the pass that ends left one row of its run: failed with an error message when it
\* raised, completed otherwise
EndedRow(r) ==
    IF raised' # NULL
    THEN r.status = "failed" /\ r.error_message # NULL
    ELSE r.status = "completed" /\ r.error_message = NULL

CheckpointStep ==
    /\ pc = "idle" /\ pc' = "clear" =>
          /\ Cardinality(CheckpointsOf(scheduler_checkpoints', run_id')) = 1
          /\ \A r \in CheckpointsOf(scheduler_checkpoints', run_id') : r.status = "started"
    /\ MainPassEnds =>
          /\ Cardinality(CheckpointsOf(scheduler_checkpoints', run_id')) = 1
          /\ \A r \in CheckpointsOf(scheduler_checkpoints', run_id') : EndedRow(r)
    /\ pc \in MainSteps =>
          /\ Cardinality(scheduler_checkpoints') = Cardinality(scheduler_checkpoints)
          /\ \A n \in 1..run_id : n # run_id =>
                CheckpointsOf(scheduler_checkpoints', n) = CheckpointsOf(scheduler_checkpoints, n)
    /\ pc' = "idle" => \A r \in scheduler_checkpoints' : r.status # "started"

\* C17: every main pass leaves exactly one checkpoint row with its run identifier:
\* written with status started at run entry, updated in place to completed when the
\* pass finishes or to failed with an error message when a step raises, whichever
\* step it is (schema initialisation included); the failure goes to the caller and
\* no row is left started once the pass has ended.
C17_CheckpointLifecycle == [][CheckpointStep]_vars

\* the status and the skip_reason of a row agree
ReasonAgrees(r) ==
    /\ r.status = "skipped" => r.skip_reason \in {"exclusion_window", "frequency_limit"}
    /\ r.status = "pre-scheduled" => r.skip_reason = NULL

\* C18: in every reachable state every row of the schedules table with status
\* skipped has skip_reason exclusion_window or frequency_limit (one value), and
\* every row with status pre-scheduled has a null skip_reason; so has every row of
\* the list a pass holds, after the frequency limiter has re-marked rows and in the
\* follow-up pass as well.
C18_SkipReason ==
    /\ \A r \in email_schedules : ReasonAgrees(r)
    /\ \A i \in DOMAIN schedules : ReasonAgrees(schedules[i])

\* the store holds a row skipped for exclusion, a row the limiter marked
\* frequency_limit although the exclusion test had it in-window, and a pre-scheduled
\* row a follow-up pass wrote
C18_Witness ==
    /\ \E r \in email_schedules : r.scheduler_run_id >= 1 /\ r.skip_reason = "exclusion_window"
    /\ \E r \in email_schedules :
          /\ r.scheduler_run_id >= 1
          /\ r.skip_reason = "frequency_limit"
          /\ r.status = "skipped"
          /\ r.email_type \in AnniversaryTypes
          /\ InWindowOf(strptime(r.scheduled_send_date),
                        WindowOfContact(r.contact_id, run_day[r.scheduler_run_id]))
    /\ \E r \in email_schedules :
          /\ r.scheduler_run_id >= 1
          /\ IsFollowupType(r.email_type)
          /\ r.status = "pre-scheduled"

\* the row the anniversary pipeline owes contact for date_str: none when the next
\* anniversary is null or less days_before is before today, else one row, dated at
\* that difference, of priority 5, skipped for exclusion exactly when in-window
AnniversaryRowCorrect(contact, rows, date_str, anniversary, days_before) ==
    /\ (rows # {}) <=>
          (date_str # NullStr /\ anniversary # NoDate /\ anniversary - days_before >= today)
    /\ Cardinality(rows) <= 1
    /\ \A i \in rows :
          /\ schedules[i].scheduled_send_date = isoformat(anniversary - days_before)
          /\ schedules[i].priority = 5
          /\ schedules[i].event_year = YearOf(anniversary)
          /\ IF InWindowOf(anniversary - days_before, WindowOfContact(contact.id, today))
             THEN schedules[i].status = "skipped" /\ schedules[i].skip_reason = "exclusion_window"
             ELSE schedules[i].status = "pre-scheduled" /\ schedules[i].skip_reason = NULL

\* C19: in the output of the anniversary pipeline a contact with a birth date
\* (effective date) has a birthday (effective_date) row iff the next anniversary less
\* birthday_email_days_before, 14 (effective_date_days_before, 30) is >= today; the
\* row is dated at that difference, has priority 5, and is skipped with reason
\* exclusion_window exactly when that date is in-window, else pre-scheduled. A TX
\* contact born 1970-03-10 gets on 2024-01-01 a pre-scheduled birthday row for
\* 2024-02-25 with event_year 2024.
C19_AnniversaryRows ==
    pc = "campaign" =>
        \A k \in DOMAIN batch :
            /\ AnniversaryRowCorrect(batch[k], RowsOf(batch[k].id, {Plain("birthday")}),
                                     batch[k].birth_date,
                                     get_next_anniversary_date(batch[k].birth_date, today), 14)
            /\ AnniversaryRowCorrect(batch[k], RowsOf(batch[k].id, {Plain("effective_date")}),
                                     batch[k].effective_date,
                                     get_next_anniversary_date(batch[k].effective_date, today), 30)
            /\ (/\ batch[k].state = "TX"
                /\ batch[k].birth_date = <<1970, 3, 10>>
                /\ today = Ymd2Ord(2024, 1, 1))
                  => \E i \in RowsOf(batch[k].id, {Plain("birthday")}) :
                        /\ schedules[i].scheduled_send_date = <<2024, 2, 25>>
                        /\ schedules[i].status = "pre-scheduled"
                        /\ schedules[i].event_year = 2024

\* the anniversary pipeline has run on 2024-01-01 for the TX contact born 1970-03-10
\* (birthday row for 2024-02-25) and a contact whose birthday row is skipped for
\* exclusion
C19_Witness ==
    /\ pc = "campaign"
    /\ today = Ymd2Ord(2024, 1, 1)
    /\ \E i \in DOMAIN schedules :
          /\ schedules[i].email_type = Plain("birthday")
          /\ contacts[schedules[i].contact_id].state = "TX"
          /\ schedules[i].scheduled_send_date = <<2024, 2, 25>>
          /\ schedules[i].status = "pre-scheduled"
    /\ \E i \in DOMAIN schedules :
          /\ schedules[i].email_type = Plain("birthday")
          /\ schedules[i].skip_reason = "exclusion_window"
    /\ \E i \in DOMAIN schedules :
          /\ schedules[i].email_type = Plain("effective_date")
          /\ schedules[i].status = "pre-scheduled"

\* min(ed_daily_soft_limit, floor(daily_cap * 0.3)), the daily cap being 7% of the
\* rows of table contacts
SoftLimit ==
    LET cap == ((Len(contacts) + uncontactable) * 7) \div 100
    IN IF ed_daily_soft_limit < (cap * 3) \div 10 THEN ed_daily_soft_limit ELSE (cap * 3) \div 10

\* pre-scheduled effective_date rows of list in dated d
EffectiveDateLoad(in, d) ==
    Cardinality({j \in DOMAIN in :
        /\ in[j].email_type = Plain("effective_date")
        /\ in[j].status = "pre-scheduled"
        /\ in[j].scheduled_send_date = d})

\* the offset of a row: md5 of (contact_id, email_type, event_year) modulo the
\* smoothing window, less two
OffsetOf(r) == (Md5Tail[<<r.contact_id, r.event_year>>] % ed_smoothing_window_days) - 2

\* row r of list in is to be smoothed
Crowded(in, r) ==
    /\ r.email_type = Plain("effective_date")
    /\ r.status = "pre-scheduled"
    /\ EffectiveDateLoad(in, r.scheduled_send_date) > SoftLimit

SmoothingStep(in, out) ==
    /\ Len(out) = Len(in)
    /\ \A i \in DOMAIN in :
          /\ out[i] = [in[i] EXCEPT !.scheduled_send_date = out[i].scheduled_send_date]
          /\ OffsetOf(in[i]) \in -2..2
          /\ IF Crowded(in, in[i]) /\ strptime(in[i].scheduled_send_date) + OffsetOf(in[i]) >= today
             THEN strptime(out[i].scheduled_send_date)
                     = strptime(in[i].scheduled_send_date) + OffsetOf(in[i])
             ELSE out[i].scheduled_send_date = in[i].scheduled_send_date

\* C20: effective-date smoothing moves a row only if it is a pre-scheduled
\* effective_date row whose date carries more pre-scheduled effective_date rows than
\* the soft limit min(ed_daily_soft_limit, floor(daily_cap * 0.3)); the new date is
\* the original plus an offset in -2..2 that depends on (contact_id, email_type,
\* event_year) only, taken only if the new date is >= today, else the date stays;
\* a row on a date at or under the soft limit is never moved, and nothing but the
\* date of a row changes.
C20_Smoothing == [][pc = "balance" /\ pc' = "limit" => SmoothingStep(schedules, schedules')]_vars

\* after the load balancer, with a soft limit of one: an effective_date row alone on
\* its date that kept the date although its offset would move it, forward
C20_Witness ==
    /\ pc = "limit"
    /\ SoftLimit = 1
    /\ \E i \in DOMAIN schedules :
          /\ Crowded(schedules, schedules[i]) = FALSE
          /\ schedules[i].email_type = Plain("effective_date")
          /\ schedules[i].status = "pre-scheduled"
          /\ OffsetOf(schedules[i]) > 0
          /\ strptime(schedules[i].scheduled_send_date)
                = Ymd2Ord(schedules[i].event_year, schedules[i].event_month,
                          schedules[i].event_day) - effective_date_days_before

\* row out is row in, but for the send date, which may differ only on a
\* pre-scheduled effective_date row
SameButDate(in, out) ==
    /\ out = [in EXCEPT !.scheduled_send_date = out.scheduled_send_date]
    /\ out.scheduled_send_date # in.scheduled_send_date
          => in.email_type = Plain("effective_date") /\ in.status = "pre-scheduled"

\* some day of list out carries more pre-scheduled rows than daily_cap times the
\* overage threshold
CapBreached(out) ==
    \E i \in DOMAIN out :
        /\ out[i].status = "pre-scheduled"
        /\ OverDailyCap(daily_counts(out, out[i].scheduled_send_date))

TierOf(clicked, answered_hq, has_conditions) ==
    CASE answered_hq /\ has_conditions -> "4_hq_with_yes"
      [] answered_hq /\ ~has_conditions -> "3_hq_no_yes"
      [] clicked /\ ~answered_hq -> "2_clicked_no_hq"
      [] ~clicked /\ ~answered_hq -> "1_cold"

\* the priority the tier table gives
PriorityOfTier(tier) ==
    CASE tier = "4_hq_with_yes" -> 1
      [] tier = "3_hq_no_yes" -> 2
      [] tier = "2_clicked_no_hq" -> 3
      [] tier = "1_cold" -> 4

\* follow-up s carries the tier of the behaviour it records and, its source not
\* being from a campaign, that tier's priority
TierAgrees(s) ==
    LET tier == TierOf(s.metadata.clicked_links, s.metadata.answered_health_questions,
                       s.metadata.has_medical_conditions)
    IN /\ s.email_type = FollowupEmailType(tier)
       /\ s.campaign_instance_id = 0 => s.priority = PriorityOfTier(tier)

\* C22: tier selection is total and mutually exclusive over (clicked, answered_hq,
\* has_conditions): answered and conditions give followup_4_hq_with_yes (1),
\* answered without conditions followup_3_hq_no_yes (2), a click without an answer
\* followup_2_clicked_no_hq (3), neither followup_1_cold (4); a follow-up to a
\* source that is not from a campaign has the priority of its tier.
C22_TierSelection ==
    /\ \A b \in [clicked_links : BOOLEAN, answered_health_questions : BOOLEAN,
                 has_medical_conditions : BOOLEAN] :
          determine_followup_type(b)
             = TierOf(b.clicked_links, b.answered_health_questions, b.has_medical_conditions)
    /\ \A tier \in {"4_hq_with_yes", "3_hq_no_yes", "2_clicked_no_hq", "1_cold"} :
          get_followup_priority(tier, 0) = PriorityOfTier(tier)
    /\ pc = "fu_save" => \A i \in DOMAIN schedules : TierAgrees(schedules[i])

\* a follow-up pass that classified one contact as having clicked and answered
\* with conditions, and wrote a follow-up to a source that is not from a campaign
C22_Witness ==
    /\ pc = "fu_save"
    /\ \E i \in DOMAIN schedules :
          /\ schedules[i].metadata.clicked_links
          /\ schedules[i].metadata.answered_health_questions
          /\ schedules[i].email_type = FollowupEmailType("4_hq_with_yes")
    /\ \E i \in DOMAIN schedules :
          /\ schedules[i].campaign_instance_id = 0
          /\ schedules[i].priority = 4

\* the stored rows a follow-up may refer to by initial_email_id
SourceOf(s) == {r \in email_schedules : r.id = s.metadata.initial_email_id}

\* contact c has an eligibility-answered event at or after the text date d
AnsweredSince(c, d) ==
    \E e \in contact_events :
        /\ e.contact_id = c
        /\ e.event_type = "eligibility_answered"
        /\ StrLe(d, e.created_at)

\* contact c has a click at or after the text date d
ClickedSince(c, d) ==
    \E k \in tracking_clicks : k.contact_id = c /\ StrLe(d, k.clicked_at)

\* C23: in the behaviour a follow-up records, answered_hq is true iff the contact
\* has an eligibility-answered event dated at or after the source message's send
\* date, whatever the event's metadata holds, and clicked is true iff the contact
\* has a click dated at or after that date.
C23_BehaviourClassification ==
    pc = "fu_save" =>
        \A i \in DOMAIN schedules : \A src \in SourceOf(schedules[i]) :
            /\ schedules[i].metadata.answered_health_questions
                  = AnsweredSince(schedules[i].contact_id, src.scheduled_send_date)
            /\ schedules[i].metadata.clicked_links
                  = ClickedSince(schedules[i].contact_id, src.scheduled_send_date)

\* the same, for contacts whose eligibility events all carry metadata text
C23_WithMetadata ==
    pc = "fu_save" =>
        \A i \in DOMAIN schedules : \A src \in SourceOf(schedules[i]) :
            (\A e \in contact_events :
                e.contact_id = schedules[i].contact_id => e.metadata.text \notin {"null", "empty"})
            => /\ schedules[i].metadata.answered_health_questions
                     = AnsweredSince(schedules[i].contact_id, src.scheduled_send_date)
               /\ schedules[i].metadata.clicked_links
                     = ClickedSince(schedules[i].contact_id, src.scheduled_send_date)

\* the later of two days
Later(a, b) == IF a >= b THEN a ELSE b

\* day d is the follow-up date the rule gives for a source dated src (text)
FollowupDateCorrect(d, src) ==
    /\ d = Later(strptime(src) + followup_days_after, today + 1)
    /\ d > today
    /\ d >= strptime(src) + followup_days_after

\* C24: for every eligible source the follow-up send date is
\* max(source scheduled_send_date + followup_days_after, today + 1): strictly after
\* today and at least followup_days_after days after the source; a source sent
\* 2024-06-17 gives 2024-06-21 on 2024-06-20.
C24_FollowupSendDate ==
    /\ FollowupDateFrom(<<2024, 6, 17>>, Ymd2Ord(2024, 6, 20) + 1) = Ymd2Ord(2024, 6, 21)
    /\ pc = "fu_schedule" =>
          \A i \in DOMAIN schedules :
              FollowupDateCorrect(calculate_followup_send_date(schedules[i].scheduled_send_date),
                                  schedules[i].scheduled_send_date)
    /\ pc = "fu_save" =>
          \A i \in DOMAIN schedules : \A src \in SourceOf(schedules[i]) :
              FollowupDateCorrect(strptime(schedules[i].scheduled_send_date),
                                  src.scheduled_send_date)

\* a pass that built a follow-up dated tomorrow for a source sent three days ago
\* and one dated the day after tomorrow for a source sent today
C24_Witness ==
    /\ pc = "fu_save"
    /\ \E i \in DOMAIN schedules : \E src \in SourceOf(schedules[i]) :
          /\ strptime(src.scheduled_send_date) = today - 3
          /\ strptime(schedules[i].scheduled_send_date) = today + 1
    /\ \E i \in DOMAIN schedules : \E src \in SourceOf(schedules[i]) :
          /\ strptime(src.scheduled_send_date) = today
          /\ strptime(schedules[i].scheduled_send_date) = today + 2

\* this step keeps every follow-up row among rows as it is
KeepsFollowups(rows) ==
    \A r \in rows : IsFollowupType(r.email_type) => r \in email_schedules'

\* C25: a main pass neither deletes nor alters follow-up rows: a pre-scheduled
\* followup_* row written by an earlier follow-up pass is in the store, unchanged,
\* after every step of a later main pass over the same contact.
C25_MainPassKeepsFollowups ==
    [][(pc \in MainSteps) => KeepsFollowups(email_schedules)]_vars

\* the same, for the follow-up rows the wipe does not select: those sent or
\* delivered, and those of contacts outside the batch
C25_KeepsUnselected ==
    [][(pc \in MainSteps) =>
          KeepsFollowups({r \in email_schedules :
              r.status \in {"sent", "delivered"} \/ r.contact_id \notin ContactIds(batch)})]_vars

\* positions of list rows skipped for exclusion
ExclusionSkipped(rows) ==
    {k \in DOMAIN rows : rows[k].status = "skipped" /\ rows[k].skip_reason = "exclusion_window"}

\* pre-scheduled rows of out[i]'s contact before position i
PreScheduledBefore(out, i) ==
    Cardinality({j \in 1..(i - 1) : out[j].contact_id = out[i].contact_id
                                    /\ out[j].status = "pre-scheduled"})

\* the limiter leaves the rows skipped for exclusion as they are and rejects a
\* proposal only when carry-over plus the contact's pre-scheduled rows admitted
\* before it reaches the limit
QuotaOfPreScheduled(in, out) ==
    /\ \A k \in ExclusionSkipped(in) : in[k] \in Range(out)
    /\ Cardinality(ExclusionSkipped(out)) = Cardinality(ExclusionSkipped(in))
    /\ \A i \in DOMAIN out :
          out[i].skip_reason = "frequency_limit"
             => CarryOver(out[i].contact_id) + PreScheduledBefore(out, i) >= max_emails_per_period

\* C26: the frequency limiter changes only rows that reach it as pre-scheduled: a
\* row skipped for exclusion_window keeps status and reason and consumes no quota,
\* so a proposal is frequency-skipped only when carry-over plus the number of the
\* contact's pre-scheduled rows admitted before it is >= max_emails_per_period.
C26_LimiterSparesExclusionSkips ==
    [][pc = "limit" /\ pc' = "save" => QuotaOfPreScheduled(schedules, schedules')]_vars

\* the email_type of row r respects exclusion windows
RespectsExclusion(r) ==
    \/ r.email_type \in AnniversaryTypes \cup {Plain("post_window")}
    \/ /\ IsCampaignType(r.email_type)
       /\ \E ct \in campaign_types :
             r.email_type = CampaignEmailType(ct.name) /\ ct.respect_exclusion_windows

\* the rows in the store written by the main pass that has just saved
PersistedByPass ==
    {r \in email_schedules : pc = "checkpoint" /\ r.scheduler_run_id = run_id}

\* C27: every row a main pass persists as pre-scheduled with a type that respects
\* exclusion windows is dated outside the contact's exclusion window (not
\* in-window), an effective_date row shifted by smoothing and a post_window row
\* dated window_end + 1 included.
C27_PreScheduledOutsideWindow ==
    \A r \in PersistedByPass :
        r.status = "pre-scheduled" /\ RespectsExclusion(r)
            => ~InWindowOf(strptime(r.scheduled_send_date), WindowOfRow(r))

\* the same with the window read as the closed interval [window_start, window_end]
C27_OutsideInterval ==
    \A r \in PersistedByPass :
        r.status = "pre-scheduled" /\ RespectsExclusion(r)
            => ~Between(strptime(r.scheduled_send_date), WindowOfRow(r))

\* the same for the rows that are neither post_window nor effective_date
C27_OtherTypes ==
    \A r \in PersistedByPass :
        /\ r.status = "pre-scheduled"
        /\ RespectsExclusion(r)
        /\ r.email_type \notin {Plain("post_window"), Plain("effective_date")}
        => ~InWindowOf(strptime(r.scheduled_send_date), WindowOfRow(r))

\* the effective_date rows of contact c for event year y that are scheduled or sent
LiveEffectiveDate(c, y) ==
    {r \in email_schedules :
        /\ r.contact_id = c
        /\ r.email_type = Plain("effective_date")
        /\ r.event_year = y
        /\ r.status \in {"pre-scheduled", "sent", "delivered"}}

\* no contact has two scheduled or sent effective_date rows for one event year
OneEffectiveDatePerYear ==
    \A r \in email_schedules :
        r.email_type = Plain("effective_date")
            => Cardinality(LiveEffectiveDate(r.contact_id, r.event_year)) <= 1

\* a main pass has just saved, after an earlier completed main pass: every
\* effective_date row the earlier pass pre-scheduled for a day after today is still
\* scheduled for its event year
StillScheduled ==
    pc = "checkpoint" /\ prev_run.valid =>
        \A x \in prev_run.out :
            /\ x.email_type = Plain("effective_date")
            /\ x.status = "pre-scheduled"
            /\ strptime(x.scheduled_send_date) > today
            => \E r \in LiveEffectiveDate(x.contact_id, x.event_year) : r.status = "pre-scheduled"

\* C28: over main passes on successive days, with the delivery worker sending the
\* rows that are due, a contact never has more than one effective_date row that is
\* pre-scheduled, sent or delivered for one event_year, and an effective_date row
\* pre-scheduled by one pass for a future date D is still scheduled for that
\* event_year after every later pass run before D.
C28_EffectiveDateStable == OneEffectiveDatePerYear /\ StillScheduled

\* the part of it that rests on the wipe alone: no contact has two pre-scheduled
\* effective_date rows for one event year
C28_OnePreScheduled ==
    \A r \in email_schedules : \A q \in LiveEffectiveDate(r.contact_id, r.event_year) :
        /\ r.email_type = Plain("effective_date")
        /\ r.status = "pre-scheduled"
        /\ q.status = "pre-scheduled"
        => q = r

\* the rows of the store that carry the identifier of the pass in progress
RowsOfRun(status) ==
    {r \in email_schedules : r.scheduler_run_id = run_id /\ r.status = status}

\* the checkpoint row cp counts what the pass in progress left in the store
CountsAgree(cp) ==
    /\ cp.emails_scheduled = Cardinality(RowsOfRun("pre-scheduled"))
    /\ cp.emails_skipped = Cardinality(RowsOfRun("skipped"))
    /\ cp.contacts_processed = Cardinality(ContactIds(batch))

\* this step completes a main pass and its checkpoint row agrees with the store
CompletesWithCounts ==
    \A cp \in scheduler_checkpoints' : cp.scheduler_run_id = run_id => CountsAgree(cp)

C29_ContactsProcessed ==
    [][pc = "checkpoint" /\ pc' = "idle" =>
          \A cp \in CheckpointsOf(scheduler_checkpoints', run_id) :
              cp.contacts_processed = Cardinality(ContactIds(batch))]_vars

\* row a comes before row b in (priority, scheduled_send_date) order
KeyBefore(a, b) ==
    \/ a.priority < b.priority
    \/ a.priority = b.priority
          /\ strptime(a.scheduled_send_date) < strptime(b.scheduled_send_date)

FrequencySkipped(r) == r.status = "skipped" /\ r.skip_reason = "frequency_limit"

\* C30: within one main pass, once a proposal of a contact is skipped for
\* frequency_limit every proposal of that contact later in (priority,
\* scheduled_send_date) order is skipped for it too; so a post_window row
\* (priority 3) is admitted before any priority-5 anniversary row of its contact.
C30_LimiterMonotone ==
    pc = "save" =>
        \A i \in DOMAIN schedules : \A j \in DOMAIN schedules :
            /\ schedules[i].contact_id = schedules[j].contact_id
            /\ FrequencySkipped(schedules[i])
            => /\ KeyBefore(schedules[i], schedules[j]) => FrequencySkipped(schedules[j])
               /\ schedules[i].email_type = Plain("post_window")
                     /\ schedules[j].email_type \in AnniversaryTypes
                     => schedules[j].status # "pre-scheduled"

\* after the limiter: a contact whose post_window row is admitted while an
\* anniversary row of priority 5 is skipped for frequency_limit, as is a row dated
\* later than that one
C30_Witness ==
    /\ pc = "save"
    /\ \E i \in DOMAIN schedules : \E j \in DOMAIN schedules : \E k \in DOMAIN schedules :
          /\ schedules[i].contact_id = schedules[j].contact_id
          /\ schedules[k].contact_id = schedules[j].contact_id
          /\ schedules[i].email_type = Plain("post_window")
          /\ schedules[i].status = "pre-scheduled"
          /\ schedules[j].email_type \in AnniversaryTypes
          /\ FrequencySkipped(schedules[j])
          /\ KeyBefore(schedules[j], schedules[k])
          /\ FrequencySkipped(schedules[k])

-----------------------------------------------------------------------------
(* Properties of the date calculus (checked under SpecCalc)                *)

\* the day n carries the month/day of the anchor text s, a Feb 29 anchor being
\* Feb 28 in a year that is not a leap year
IsAnniversaryDay(n, s) ==
    \/ MonthOf(n) = s[2] /\ DayOf(n) = s[3]
    \/ s[2] = 2 /\ s[3] = 29 /\ ~IsLeap(YearOf(n)) /\ MonthOf(n) = 2 /\ DayOf(n) = 28

\* r is the earliest anniversary day of s strictly after reference
IsNextAnniversary(r, s, reference) ==
    /\ r > reference
    /\ IsAnniversaryDay(r, s)
    /\ \A k \in (reference + 1)..(r - 1) : ~IsAnniversaryDay(k, s)

NextAnniversaryCorrect(s, reference, r) ==
    IF s = NullStr \/ ~ValidYmd(s[1], s[2], s[3]) THEN r = NoDate
    ELSE IsNextAnniversary(r, s, reference)

\* C8: get_next_anniversary_date(d, today) is the earliest date strictly after
\* today that carries d's month/day (Feb 29 taken as Feb 28 in a non-leap target
\* year), and is null when d is null or malformed; 2020-02-29 seen from
\* 2023-06-01 gives 2024-02-29, seen from 2022-06-01 gives 2023-02-28.
C8_NextAnniversary ==
    calc_out.call = "get_next_anniversary_date" =>
        /\ NextAnniversaryCorrect(calc_in.contact.birth_date, calc_in.reference,
                                  calc_out.anniversary)
        /\ (calc_in.contact.birth_date = <<2020, 2, 29>> /\ calc_in.reference = Ymd2Ord(2023, 6, 1)
                => calc_out.anniversary = Ymd2Ord(2024, 2, 29))
        /\ (calc_in.contact.birth_date = <<2020, 2, 29>> /\ calc_in.reference = Ymd2Ord(2022, 6, 1)
                => calc_out.anniversary = Ymd2Ord(2023, 2, 28))

\* a Feb 29 anchor has been resolved into a non-leap year, on Feb 28
C8_Witness ==
    /\ calc_out.call = "get_next_anniversary_date"
    /\ calc_in.contact.birth_date = <<2020, 2, 29>>
    /\ calc_in.reference = Ymd2Ord(2022, 6, 1)
    /\ isoformat(calc_out.anniversary) = <<2023, 2, 28>>

\* the anchor of a window rule, as the rule names it
RuleDate(rule, contact) ==
    IF rule.rule_type = "birthday_window" THEN contact.birth_date ELSE contact.effective_date

FirstOfMonth(n) == Ymd2Ord(YearOf(n), MonthOf(n), 1)

\* w = [anchor - (window_before + pre_window_exclusion_days), anchor + window_after]
\* for the anchor a of the rule
IsWindowOf(w, rule, a) ==
    /\ w[1] = a - (rule.window_before + pre_window_exclusion_days)
    /\ w[2] = a + rule.window_after

\* anniversary is the next anniversary of the rule's date and w the window around it
\* (around the first day of its month under use_month_start)
WindowOfAnniversary(w, rule, s, reference, anniversary) ==
    /\ IsNextAnniversary(anniversary, s, reference)
    /\ IsWindowOf(w, rule,
                  IF rule.rule_type = "birthday_window" /\ rule.use_month_start
                  THEN FirstOfMonth(anniversary) ELSE anniversary)

WindowCorrect(w, rule, contact, reference) ==
    IF rule.rule_type = "year_round"
    THEN w = <<Ymd2Ord(YearOf(reference), 1, 1), Ymd2Ord(YearOf(reference), 12, 31)>>
    ELSE IF RuleDate(rule, contact) = NullStr THEN w = <<NoDate, NoDate>>
    ELSE strptime(RuleDate(rule, contact)) # NoDate =>
            \E a \in (reference + 1)..(reference + 366) :
                WindowOfAnniversary(w, rule, RuleDate(rule, contact), reference, a)

\* C9: calculate_exclusion_window gives (Jan 1, Dec 31) of the reference year for a
\* year_round state; for a window state, start = anchor - (window_before +
\* pre_window_exclusion_days) and end = anchor + window_after around the next
\* anniversary of the birth date (its month's first day under use_month_start) or
\* of the effective date; (null, null) when the state has no rule or the date is
\* missing.  CA, born 1960-07-01, on 2024-05-01: [2024-04-02, 2024-08-30].
C9_ExclusionWindow ==
    calc_out.call = "calculate_exclusion_window" =>
        /\ IF calc_in.contact.state \in DOMAIN state_rules
           THEN WindowCorrect(calc_out.window, state_rules[calc_in.contact.state],
                              calc_in.contact, calc_in.reference)
           ELSE calc_out.window = <<NoDate, NoDate>>
        /\ (/\ calc_in.contact.state = "CA"
            /\ calc_in.contact.birth_date = <<1960, 7, 1>>
            /\ calc_in.reference = Ymd2Ord(2024, 5, 1))
                => calc_out.window = <<Ymd2Ord(2024, 4, 2), Ymd2Ord(2024, 8, 30)>>

\* the California example has been computed
C9_Witness ==
    /\ calc_out.call = "calculate_exclusion_window"
    /\ calc_in.contact.state = "CA"
    /\ calc_in.contact.birth_date = <<1960, 7, 1>>
    /\ calc_in.reference = Ymd2Ord(2024, 5, 1)
    /\ isoformat(calc_out.window[1]) = <<2024, 4, 2>>
    /\ isoformat(calc_out.window[2]) = <<2024, 8, 30>>

=============================================================================
